---- MODULE Spec2Model ----
(***************************************************************************)
(* A model of the festlist backend: the artist-extraction pipeline         *)
(* (text normalisation, candidate reconciliation), the AI extractors'      *)
(* failure handling and the Spotify catalog matcher.                       *)
(*                                                                         *)
(* Text is a sequence of one-character strings.  A similarity score is an  *)
(* exact rational <<numerator, denominator>>.  A confidence is an IEEE     *)
(* double, written d * 10 + k: d is the nearest multiple of 0.0001 and k   *)
(* counts the doubles between the value and the double nearest to that     *)
(* decimal (k > 0 above it, k < 0 below it), so that 1.0 is 100000 and     *)
(* 0.7999999999999999 is 79999.  The encoding preserves the order.         *)
(***************************************************************************)
EXTENDS Integers, Sequences, FiniteSets, TLC

VARIABLES
    \* ---- clean_text applied to a text, and to its own output
    raw, norm1, norm2, cpc,
    \* ---- calculate_artist_match_score(search_name, found_name)
    search_name, found_name, score, spc,
    \* ---- search_artist(artist_name)
    artist_name, is_configured, cleaned_name, artists, idx, best_match,
    best_score, found, log, mpc,
    \* ---- one call of an AI extraction entry point
    called, available, project_id, resp, outcome, apc,
    \* ---- extract_artists(ocr_text, use_ai, confidence_threshold), the state
    \*      of the two AI providers it calls, its local variables and what it
    \*      returned
    ocr_text, use_ai, confidence_threshold,
    gemini_available, gemini_response, vertex_project_id, vertex_response,
    cleaned_text, pattern_artists, ai_artists, all_artists, merged_artists,
    cursor, returned, epc,
    \* ---- the reconciliation of extract_artists applied to a list of
    \*      candidates, and to the same candidates in another order
    candidate_list, reordered, floor, first_ranking, ranking, rpc,
    \* ---- calculate_pattern_confidence(conf_match, conf_line, conf_text)
    conf_match, conf_line, conf_text, conf_value, kpc,
    \* ---- extract_with_patterns(pat_text), its local lists and what it returned
    pat_text, potential_artists, unique_artists, extracted, ppc,
    \* ---- the parsing of a model response: the text, the [...] substring the
    \*      parser found in it, the entries json.loads made of it and the
    \*      candidates returned
    response_text, parser, json_str, artists_data, parsed_artists, qpc,
    \* ---- concurrent extract_artists requests on the one ArtistExtractionService:
    \*      the service, and per request its arguments, its local variables,
    \*      what it returned and where it is
    svc_state, req_in, frames, req_out, tpc,
    \* ---- the daily analysis limit: the Firestore service, the limit, the user's
    \*      document, the UTC date, the requests in the middleware, and how many
    \*      requests were made, admitted today and answered with success today
    fb_available, rl_limit, user_doc, utc_today, rl_req, rl_response, attempts, admitted_today, succeeded_today,
    \* ---- POST /create-playlist: the request body, whether Spotify is configured,
    \*      the status of the response, whether process_artists_to_playlist
    \*      was called, and where the request is
    pl_request, pl_configured, pl_status, pl_invoked, pl_pc,
    \* ---- process_artists_to_playlist: the number of artist names, the next one,
    \*      the tracks collected, the calls made so far (searches, playlist
    \*      creations, whether add_tracks_to_playlist was called, batches
    \*      added), whether a playlist was returned, the result, the position
    wf_artists, wf_next, wf_tracks, wf_searched, wf_failed, wf_created, wf_playlist, wf_add_called, wf_added, wf_result, wf_pc,
    \* ---- RateLimitMiddleware: requests_per_minute, self.requests (per client IP
    \*      the stored timestamps), time.time() in seconds, and as history the
    \*      timestamps admitted per IP, the last call and the number of calls
    requests_per_minute, lim_requests, lim_clock, lim_admitted, lim_last, lim_calls,
    \* ---- POST /ocr: ocr_service.ocr_engine, the engine set at start-up, the
    \*      requests with their local variables, and the request that is
    \*      running on the event loop (0: none)
    ocr_engine, startup_engine, ocr_req, ocr_running

cleanVars == <<raw, norm1, norm2, cpc>>
scoreVars == <<search_name, found_name, score, spc>>
searchVars == <<artist_name, is_configured, cleaned_name, artists, idx,
                best_match, best_score, found, log, mpc>>
aiVars == <<called, available, project_id, resp, outcome, apc>>
requestVars == <<ocr_text, use_ai, confidence_threshold>>
providerVars == <<gemini_available, gemini_response, vertex_project_id, vertex_response>>
extractVars == <<ocr_text, use_ai, confidence_threshold,
                 gemini_available, gemini_response, vertex_project_id, vertex_response,
                 cleaned_text, pattern_artists, ai_artists, all_artists,
                 merged_artists, cursor, returned, epc>>
vars == <<raw, norm1, norm2, cpc, search_name, found_name, score, spc,
          artist_name, is_configured, cleaned_name, artists, idx, best_match,
          best_score, found, log, mpc,
          called, available, project_id, resp, outcome, apc,
          ocr_text, use_ai, confidence_threshold,
          gemini_available, gemini_response, vertex_project_id, vertex_response,
          cleaned_text, pattern_artists, ai_artists, all_artists, merged_artists,
          cursor, returned, epc,
          candidate_list, reordered, floor, first_ranking, ranking, rpc,
          conf_match, conf_line, conf_text, conf_value, kpc,
          pat_text, potential_artists, unique_artists, extracted, ppc,
          response_text, parser, json_str, artists_data, parsed_artists, qpc,
          svc_state, req_in, frames, req_out, tpc,
          fb_available, rl_limit, user_doc, utc_today, rl_req, rl_response, attempts, admitted_today, succeeded_today,
          pl_request, pl_configured, pl_status, pl_invoked, pl_pc,
          wf_artists, wf_next, wf_tracks, wf_searched, wf_failed, wf_created, wf_playlist, wf_add_called, wf_added, wf_result, wf_pc,
          requests_per_minute, lim_requests, lim_clock, lim_admitted, lim_last, lim_calls,
          ocr_engine, startup_engine, ocr_req, ocr_running>>

reconcileVars == <<candidate_list, reordered, floor, first_ranking, ranking, rpc>>

confidenceVars == <<conf_match, conf_line, conf_text, conf_value, kpc>>

patternVars == <<pat_text, potential_artists, unique_artists, extracted, ppc>>

parseVars == <<response_text, parser, json_str, artists_data, parsed_artists, qpc>>

concurrentVars == <<svc_state, req_in, frames, req_out, tpc>>

rateVars == <<fb_available, rl_limit, user_doc, utc_today, rl_req, rl_response, attempts, admitted_today, succeeded_today>>

playlistVars == <<pl_request, pl_configured, pl_status, pl_invoked, pl_pc>>

workflowVars == <<wf_artists, wf_next, wf_tracks, wf_searched, wf_failed, wf_created, wf_playlist, wf_add_called, wf_added, wf_result, wf_pc>>

limiterVars == <<requests_per_minute, lim_requests, lim_clock, lim_admitted, lim_last, lim_calls>>

ocrVars == <<ocr_engine, startup_engine, ocr_req, ocr_running>>

(***************************************************************************)
(* Bounds of the model.                                                    *)
(***************************************************************************)
MaxTextLen == 4
MaxTokens == 5
MaxNameLen == 3
MaxResults == 3
MaxEntries == 2
MaxAIResults == 2
MaxCandidates == 3
MaxRepeats == 5
MaxRoster == 22
MaxSymbols == 5
MaxRequests == 2
MaxLimit == 3
MaxAttempts == 4
MaxDays == 2
MaxCallers == 2
MaxArtists == 3
MaxPerMinute == 2
MaxCalls == 5
MaxOcrRequests == 2

(***************************************************************************)
(* Characters and the character classes of Python's re module.            *)
(***************************************************************************)
Digits == {"0", "1", "2", "3", "4", "5", "6", "7", "8", "9"}
LowerLetters == {"a", "b", "c", "d", "e", "f", "g", "h", "i", "j", "k", "l", "m",
                 "n", "o", "p", "q", "r", "s", "t", "u", "v", "w", "x", "y", "z"}
UpperLetters == {"A", "B", "C", "D", "E", "F", "G", "H", "I", "J", "K", "L", "M",
                 "N", "O", "P", "Q", "R", "S", "T", "U", "V", "W", "X", "Y", "Z"}
Whitespace == {" ", "\n", "\t"}

\* \d, \s, \S and \w
IsDigit(c) == c \in Digits
IsSpace(c) == c \in Whitespace
IsNonSpace(c) == c \notin Whitespace
IsWordChar(c) == c \in Digits \cup LowerLetters \cup UpperLetters \cup {"_"}

\* [A-Z], [a-z], str.isupper(), str.islower(), str.isdigit() on one character
IsUpper(c) == c \in UpperLetters
IsLower(c) == c \in LowerLetters

\* the character at 1-based position i, "" outside the string
CharAt(t, i) == IF i \in 1..Len(t) THEN t[i] ELSE ""

\* \b just before position i (i = Len(t)+1 is the end of the string)
WordBoundary(t, i) == IsWordChar(CharAt(t, i - 1)) # IsWordChar(CharAt(t, i))

\* str.strip(): drop leading and trailing whitespace
Strip(t) ==
    LET keep == {i \in 1..Len(t) : IsNonSpace(t[i])}
        lo == CHOOSE i \in keep : \A j \in keep : i <= j
        hi == CHOOSE i \in keep : \A j \in keep : j <= i
    IN IF keep = {} THEN <<>> ELSE SubSeq(t, lo, hi)

\* membership in a character class, named by its escape
InClass(c, class) ==
    CASE class = "s" -> IsSpace(c)
      [] class = "S" -> IsNonSpace(c)
      [] class = "d" -> IsDigit(c)
      [] class = "a-z" -> IsLower(c)
      [] class = "A-Z" -> IsUpper(c)

\* the number of consecutive characters of a class starting at i
RunLen(t, i, class) ==
    LET n == Len(t)
        stops == {j \in i..(n + 1) : j = n + 1 \/ ~InClass(t[j], class)}
    IN IF i > n THEN 0 ELSE (CHOOSE j \in stops : \A k \in stops : j <= k) - i

(***************************************************************************)
(* ArtistExtractionService.clean_text: the six substitutions, in the       *)
(* order the code applies them.  Each XxxMatch(t, i) is the length of the  *)
(* match of the pass's pattern that starts at position i, or 0.            *)
(***************************************************************************)
\* \s+
SpaceMatch(t, i) == RunLen(t, i, "s")

\* \b\d{1,2}[:/]\d{2}\b
TimeMatch(t, i) ==
    LET ok(d) == /\ \A k \in 0..(d - 1) : IsDigit(CharAt(t, i + k))
                 /\ CharAt(t, i + d) \in {":", "/"}
                 /\ IsDigit(CharAt(t, i + d + 1))
                 /\ IsDigit(CharAt(t, i + d + 2))
                 /\ WordBoundary(t, i + d + 3)
    IN IF ~WordBoundary(t, i) THEN 0
       ELSE IF ok(2) THEN 5
       ELSE IF ok(1) THEN 4
       ELSE 0

\* \$\d+
PriceMatch(t, i) ==
    IF CharAt(t, i) = "$" /\ RunLen(t, i + 1, "d") > 0
    THEN 1 + RunLen(t, i + 1, "d")
    ELSE 0

\* \b\d{1,2}/\d{1,2}/\d{2,4}\b   (greedy, with backtracking: the first
\* combination in the order 2 before 1, then 4, 3, 2 that matches)
DateMatch(t, i) ==
    LET digits(p, d) == \A k \in 0..(d - 1) : IsDigit(CharAt(t, p + k))
        ok(d1, d2, d3) ==
            /\ digits(i, d1)
            /\ CharAt(t, i + d1) = "/"
            /\ digits(i + d1 + 1, d2)
            /\ CharAt(t, i + d1 + 1 + d2) = "/"
            /\ digits(i + d1 + d2 + 2, d3)
            /\ WordBoundary(t, i + d1 + d2 + 2 + d3)
        order == << <<2, 2, 4>>, <<2, 2, 3>>, <<2, 2, 2>>,
                    <<2, 1, 4>>, <<2, 1, 3>>, <<2, 1, 2>>,
                    <<1, 2, 4>>, <<1, 2, 3>>, <<1, 2, 2>>,
                    <<1, 1, 4>>, <<1, 1, 3>>, <<1, 1, 2>> >>
        hits == {k \in 1..Len(order) : ok(order[k][1], order[k][2], order[k][3])}
        first == CHOOSE k \in hits : \A j \in hits : k <= j
    IN IF ~WordBoundary(t, i) \/ hits = {} THEN 0
       ELSE order[first][1] + order[first][2] + order[first][3] + 2

\* \bwww\.\S+\b   (\S+ is greedy and backs off to the last word boundary)
UrlMatch(t, i) ==
    LET run == RunLen(t, i + 4, "S")
        ends == {k \in 1..run : WordBoundary(t, i + 4 + k)}
    IN IF /\ WordBoundary(t, i)
          /\ CharAt(t, i) = "w" /\ CharAt(t, i + 1) = "w"
          /\ CharAt(t, i + 2) = "w" /\ CharAt(t, i + 3) = "."
          /\ i + 4 <= Len(t) + 1
          /\ ends # {}
       THEN 4 + (CHOOSE k \in ends : \A j \in ends : j <= k)
       ELSE 0

\* \b\S+@\S+\.\S+\b   (each \S+ greedy: the longest local part for which
\* the rest matches, then the longest domain, then the longest suffix)
EmailMatch(t, i) ==
    LET e == i + RunLen(t, i, "S")          \* end of the \S run
        ats == {p \in (i + 1)..(e - 1) : t[p] = "@"}
        dots == {q \in (i + 1)..(e - 1) : t[q] = "."}
        ends == {f \in (i + 1)..e : WordBoundary(t, f)}
        fits == {w \in ats \X dots \X ends : w[1] + 1 < w[2] /\ w[2] + 1 < w[3]}
        before(a, b) == \/ a[1] > b[1]
                        \/ a[1] = b[1] /\ a[2] > b[2]
                        \/ a[1] = b[1] /\ a[2] = b[2] /\ a[3] >= b[3]
        best == CHOOSE a \in fits : \A b \in fits : before(a, b)
    IN IF i <= Len(t) /\ WordBoundary(t, i) /\ fits # {} THEN best[3] - i ELSE 0

(***************************************************************************)
(* ArtistExtractionService.artist_patterns.                                *)
(***************************************************************************)
\* [A-Z][a-z]+ at position i: its length, or 0
CapWord(t, i) ==
    IF IsUpper(CharAt(t, i)) /\ RunLen(t, i + 1, "a-z") > 0
    THEN 1 + RunLen(t, i + 1, "a-z")
    ELSE 0

\* whether t continues at position i with the characters of lit
LiteralAt(t, i, lit) == \A k \in 1..Len(lit) : CharAt(t, i + k - 1) = lit[k]

\* the joiner between two capitalised words, at position i: \s+ followed
\* by nothing (<<>>), by &\s+ or by and\s+; its length, or 0
Joiner(t, i, lit) ==
    LET s1 == RunLen(t, i, "s")
        s2 == RunLen(t, i + s1 + Len(lit), "s")
    IN IF s1 = 0 THEN 0
       ELSE IF lit = <<>> THEN s1
       ELSE IF LiteralAt(t, i + s1, lit) /\ s2 > 0 THEN s1 + Len(lit) + s2
       ELSE 0

\* the end of the capitalised word at position p, or 0
WordEnd(t, p) == IF CapWord(t, p) = 0 THEN 0 ELSE p + CapWord(t, p)

\* the end of the capitalised word that a joiner at position e leads to, or 0
NextWordEnd(t, e, lit) ==
    IF Joiner(t, e, lit) = 0 THEN 0 ELSE WordEnd(t, e + Joiner(t, e, lit))

\* the ends of the chains of capitalised words that continue a chain
\* ending at e (0: there is no chain), that chain included
RECURSIVE ChainEnds(_, _, _)
ChainEnds(t, e, lit) ==
    IF e = 0 THEN {} ELSE {e} \cup ChainEnds(t, NextWordEnd(t, e, lit), lit)

\* the end of the shortest chain the pattern admits at position i: one
\* word, or one word, a joiner and a word; 0 when there is none
ChainStart(t, i, lit, least) ==
    IF least = 0 \/ WordEnd(t, i) = 0 THEN WordEnd(t, i)
    ELSE NextWordEnd(t, WordEnd(t, i), lit)

\* \b[A-Z][a-z]+(?:<joiner>[A-Z][a-z]+){least,}\b at position i: the group
\* is greedy and gives iterations back until the match ends at a \b
ChainMatch(t, i, lit, least) ==
    IF ~WordBoundary(t, i) THEN 0
    ELSE LET ends == ChainEnds(t, ChainStart(t, i, lit, least), lit)
             good == {e \in ends : WordBoundary(t, e)}
         IN IF good = {} THEN 0
            ELSE (CHOOSE e \in good : \A f \in good : f <= e) - i

\* \b[A-Z]+\b
CapsMatch(t, i) ==
    LET run == RunLen(t, i, "A-Z")
    IN IF WordBoundary(t, i) /\ run > 0 /\ WordBoundary(t, i + run) THEN run ELSE 0

artist_patterns == <<"title", "caps", "ampersand", "and">>

\* what joins the capitalised words of a pattern, after the first \s+
JoinerOf(pattern) ==
    CASE pattern = "ampersand" -> <<"&">>
      [] pattern = "and" -> <<"a", "n", "d">>
      [] OTHER -> <<>>

\* the length of the match of an artist pattern at position i, or 0
ArtistMatchLen(pattern, t, i) ==
    IF pattern = "caps" THEN CapsMatch(t, i)
    ELSE ChainMatch(t, i, JoinerOf(pattern), IF pattern = "title" THEN 0 ELSE 1)

\* the length of the match of a pass's pattern at position i, or 0
MatchLen(pattern, t, i) ==
    CASE pattern = "space" -> SpaceMatch(t, i)
      [] pattern = "time" -> TimeMatch(t, i)
      [] pattern = "price" -> PriceMatch(t, i)
      [] pattern = "date" -> DateMatch(t, i)
      [] pattern = "url" -> UrlMatch(t, i)
      [] pattern = "email" -> EmailMatch(t, i)

\* the least position of starts that is not before i, or 0
NextStart(starts, i) ==
    IF \A j \in starts : j < i THEN 0
    ELSE CHOOSE x \in starts : x >= i /\ \A y \in starts : y >= i => x <= y

\* the positions where an artist pattern matches
MatchStarts(pattern, t) == {j \in 1..Len(t) : ArtistMatchLen(pattern, t, j) > 0}

\* the match at position j and the matches that follow it (none: j = 0)
RECURSIVE MatchesFrom(_, _, _, _)
MatchesFrom(pattern, t, starts, j) ==
    IF j = 0 THEN <<>>
    ELSE <<SubSeq(t, j, j + ArtistMatchLen(pattern, t, j) - 1)>>
         \o MatchesFrom(pattern, t, starts,
                        NextStart(starts, j + ArtistMatchLen(pattern, t, j)))

\* re.findall(pattern, t): the matches, left to right, not overlapping
FindAll(pattern, t) ==
    MatchesFrom(pattern, t, MatchStarts(pattern, t),
                NextStart(MatchStarts(pattern, t), 1))

\* re.sub(pattern, repl, t): scan left to right; where the pattern matches
\* emit repl and resume after the match, otherwise copy the character
ReSub(pattern, repl, t) ==
    LET n == Len(t)
        F[i \in 1..(n + 1)] ==
            IF i > n THEN <<>>
            ELSE LET len == MatchLen(pattern, t, i)
                 IN IF len > 0 THEN repl \o F[i + len]
                    ELSE <<t[i]>> \o F[i + 1]
    IN F[1]

clean_text(text) ==
    Strip(ReSub("email", <<>>,
          ReSub("url", <<>>,
          ReSub("date", <<>>,
          ReSub("price", <<>>,
          ReSub("time", <<>>,
          ReSub("space", <<" ">>, Strip(text))))))))

(***************************************************************************)
(* SpecClean: clean_text applied to a text and then to its own output.     *)
(* Texts are all strings over CleanAlphabet up to MaxTextLen characters    *)
(* and all concatenations of up to MaxTokens of the CleanTokens (a word, a *)
(* space, a time, a price, a date, a URL, an e-mail address).              *)
(***************************************************************************)
CleanAlphabet == {"a", " ", "\n", "1", ":", "$", "/"}

CleanTokens ==
    { <<"a">>, <<" ">>,
      <<"1", ":", "3", "0">>,
      <<"$", "5">>,
      <<"1", "/", "2", "/", "2", "4">>,
      <<"w", "w", "w", ".", "a", ".", "b">>,
      <<"a", "@", "b", ".", "c">> }

StringsUpTo(alphabet, n) == UNION {[1..k -> alphabet] : k \in 0..n}

RECURSIVE Concat(_)
Concat(parts) == IF parts = <<>> THEN <<>> ELSE Head(parts) \o Concat(Tail(parts))

CleanTexts ==
    StringsUpTo(CleanAlphabet, MaxTextLen)
        \cup {Concat(parts) : parts \in StringsUpTo(CleanTokens, MaxTokens)}

\* the variables of the other specifications, at rest
ScoreIdle == search_name = <<>> /\ found_name = <<>> /\ score = <<0, 1>> /\ spc = "idle"
CleanIdle == raw = <<>> /\ norm1 = <<>> /\ norm2 = <<>> /\ cpc = "idle"
NoResponse ==
    [call |-> "returns", text |-> "empty", body |-> [array |-> "none", entries |-> <<>>]]
AIIdle ==
    /\ called = "" /\ available = FALSE /\ project_id = FALSE
    /\ resp = NoResponse
    /\ outcome = [raised |-> FALSE, value |-> <<>>]
    /\ apc = "idle"
SearchIdle ==
    /\ artist_name = <<>> /\ is_configured = FALSE /\ cleaned_name = <<>>
    /\ artists = <<>> /\ idx = 0 /\ best_match = 0 /\ best_score = <<0, 1>>
    /\ found = 0 /\ log = "" /\ mpc = "idle"
NoResult == [artists |-> <<>>, total_found |-> 0, method |-> "",
             pattern_results |-> 0, ai_results |-> 0]
ReconcileIdle ==
    /\ candidate_list = <<>> /\ reordered = <<>> /\ floor = 0
    /\ first_ranking = <<>> /\ ranking = <<>> /\ rpc = "idle"
ConfidenceIdle ==
    /\ conf_match = <<>> /\ conf_line = <<>> /\ conf_text = <<>>
    /\ conf_value = 0 /\ kpc = "idle"
PatternIdle ==
    /\ pat_text = <<>> /\ potential_artists = <<>> /\ unique_artists = <<>>
    /\ extracted = <<>> /\ ppc = "idle"
ParseIdle ==
    /\ response_text = <<>> /\ parser = "" /\ json_str = <<>>
    /\ artists_data = <<>> /\ parsed_artists = <<>> /\ qpc = "idle"
ConcurrentIdle ==
    /\ svc_state = [gemini_ok |-> FALSE, project |-> FALSE]
    /\ req_in = <<>> /\ frames = <<>> /\ req_out = <<>> /\ tpc = <<>>
RateIdle ==
    /\ fb_available = FALSE /\ rl_limit = 0 /\ utc_today = 0
    /\ user_doc = [exists |-> FALSE, daily_analyses_count |-> 0, image_analyses_count |-> 0,
                   has_reset_date |-> FALSE, rate_limit_reset_date |-> 0]
    /\ rl_req = <<>> /\ rl_response = <<>> /\ attempts = 0 /\ admitted_today = 0 /\ succeeded_today = 0
PlaylistIdle ==
    /\ pl_request = <<>> /\ pl_configured = FALSE /\ pl_status = 0
    /\ pl_invoked = FALSE /\ pl_pc = "idle"
WorkflowIdle ==
    /\ wf_artists = 0 /\ wf_next = 0 /\ wf_tracks = 0 /\ wf_searched = 0 /\ wf_failed = 0 /\ wf_created = 0
    /\ wf_playlist = FALSE /\ wf_add_called = FALSE /\ wf_added = 0
    /\ wf_result = "none" /\ wf_pc = "idle"
LimiterIdle ==
    /\ requests_per_minute = 0 /\ lim_requests = <<>> /\ lim_clock = 0
    /\ lim_admitted = <<>> /\ lim_last = <<>> /\ lim_calls = 0
OcrIdle ==
    /\ ocr_engine = "none" /\ startup_engine = "none" /\ ocr_req = <<>> /\ ocr_running = 0
ExtractIdle ==
    /\ ocr_text = <<>> /\ use_ai = FALSE /\ confidence_threshold = 0
    /\ gemini_available = FALSE /\ gemini_response = NoResponse
    /\ vertex_project_id = FALSE /\ vertex_response = NoResponse
    /\ cleaned_text = <<>> /\ pattern_artists = <<>> /\ ai_artists = <<>>
    /\ all_artists = <<>> /\ merged_artists = <<>> /\ cursor = 0
    /\ returned = NoResult /\ epc = "idle"

CleanInit ==
    /\ raw \in CleanTexts
    /\ norm1 = <<>>
    /\ norm2 = <<>>
    /\ cpc = "start"
    /\ ScoreIdle
    /\ SearchIdle
    /\ AIIdle
    /\ ExtractIdle
    /\ ReconcileIdle
    /\ ConfidenceIdle
    /\ PatternIdle
    /\ ParseIdle
    /\ ConcurrentIdle
    /\ RateIdle
    /\ PlaylistIdle
    /\ WorkflowIdle
    /\ LimiterIdle
    /\ OcrIdle

\* cleaned_text = self.clean_text(text)
Normalize ==
    /\ cpc = "start"
    /\ norm1' = clean_text(raw)
    /\ cpc' = "once"
    /\ UNCHANGED <<raw, norm2>>
    /\ UNCHANGED <<scoreVars, searchVars, aiVars, extractVars, reconcileVars, confidenceVars, patternVars, parseVars, concurrentVars, rateVars, playlistVars, workflowVars, limiterVars, ocrVars>>

\* the cleaned text is cleaned again
Renormalize ==
    /\ cpc = "once"
    /\ norm2' = clean_text(norm1)
    /\ cpc' = "twice"
    /\ UNCHANGED <<raw, norm1>>
    /\ UNCHANGED <<scoreVars, searchVars, aiVars, extractVars, reconcileVars, confidenceVars, patternVars, parseVars, concurrentVars, rateVars, playlistVars, workflowVars, limiterVars, ocrVars>>

CleanNext == Normalize \/ Renormalize

SpecClean == CleanInit /\ [][CleanNext]_vars

\* C4: normalisation is idempotent: cleaning a cleaned text changes nothing.
NormalizationIdempotent == cpc = "twice" => norm2 = norm1

\* C17: the output of clean_text has no leading or trailing whitespace and
\* no two consecutive whitespace characters, also where a time, price,
\* date, URL or e-mail token was deleted between two words.  It does not
\* hold: the tokens are deleted after the whitespace was collapsed.
CleanedTextHasNoIrregularSpacing ==
    cpc # "start" =>
        /\ norm1 = Strip(norm1)
        /\ \A i \in 1..(Len(norm1) - 1) :
              ~(IsSpace(norm1[i]) /\ IsSpace(norm1[i + 1]))

(***************************************************************************)
(* SpotifyService.calculate_artist_match_score.  A score is the exact      *)
(* rational <<numerator, denominator>>.                                    *)
(***************************************************************************)
\* str.lower() on one character
LowerChar(c) ==
    CASE c = "A" -> "a" [] c = "B" -> "b" [] c = "C" -> "c" [] c = "D" -> "d"
      [] c = "E" -> "e" [] c = "F" -> "f" [] c = "G" -> "g" [] c = "H" -> "h"
      [] c = "I" -> "i" [] c = "J" -> "j" [] c = "K" -> "k" [] c = "L" -> "l"
      [] c = "M" -> "m" [] c = "N" -> "n" [] c = "O" -> "o" [] c = "P" -> "p"
      [] c = "Q" -> "q" [] c = "R" -> "r" [] c = "S" -> "s" [] c = "T" -> "t"
      [] c = "U" -> "u" [] c = "V" -> "v" [] c = "W" -> "w" [] c = "X" -> "x"
      [] c = "Y" -> "y" [] c = "Z" -> "z" [] OTHER -> c

\* str.lower()
Lower(t) == [i \in 1..Len(t) |-> LowerChar(t[i])]

\* a in b, for strings
Contains(b, a) ==
    \E i \in 1..(Len(b) - Len(a) + 1) : SubSeq(b, i, i + Len(a) - 1) = a

\* str.split(): the maximal runs of non-whitespace characters, in order
Split(t) ==
    LET n == Len(t)
        F[i \in 1..(n + 1)] ==
            IF i > n THEN <<>>
            ELSE IF IsSpace(t[i]) THEN F[i + 1]
            ELSE LET len == RunLen(t, i, "S")
                 IN <<SubSeq(t, i, i + len - 1)>> \o F[i + len]
    IN F[1]

\* set(words)
SetOf(words) == {words[i] : i \in 1..Len(words)}

calculate_artist_match_score_NoSubstring(sname, fname) ==
    LET search_lower == Strip(Lower(sname))
        found_lower == Strip(Lower(fname))
        search_words == SetOf(Split(search_lower))
        found_words == SetOf(Split(found_lower))
        overlap == Cardinality(search_words \cap found_words)
        total == Cardinality(search_words \cup found_words)
    IN IF search_lower = found_lower THEN <<1, 1>>
       ELSE IF search_words = {} \/ found_words = {} THEN <<0, 1>>
       ELSE IF total > 0 THEN <<overlap, total>> ELSE <<0, 1>>

calculate_artist_match_score(sname, fname) ==
    LET search_lower == Strip(Lower(sname))
        found_lower == Strip(Lower(fname))
        search_words == SetOf(Split(search_lower))
        found_words == SetOf(Split(found_lower))
        overlap == Cardinality(search_words \cap found_words)
        total == Cardinality(search_words \cup found_words)
    IN IF search_lower = found_lower THEN <<1, 1>>
       ELSE IF Contains(found_lower, search_lower) \/ Contains(search_lower, found_lower)
            THEN <<9, 10>>
       ELSE IF search_words = {} \/ found_words = {} THEN <<0, 1>>
       ELSE IF total > 0 THEN <<overlap, total>> ELSE <<0, 1>>

\* comparison of two scores
ScoreGreater(a, b) == a[1] * b[2] > b[1] * a[2]
ScoreEqual(a, b) == a[1] * b[2] = b[1] * a[2]

(***************************************************************************)
(* SpecScore: the score of every pair of names over ScoreAlphabet up to    *)
(* MaxNameLen characters.                                                  *)
(***************************************************************************)
ScoreAlphabet == {"a", "b", "A", " "}

ScoreInit ==
    /\ search_name \in StringsUpTo(ScoreAlphabet, MaxNameLen)
    /\ found_name \in StringsUpTo(ScoreAlphabet, MaxNameLen)
    /\ score = <<0, 1>>
    /\ spc = "start"
    /\ CleanIdle
    /\ SearchIdle
    /\ AIIdle
    /\ ExtractIdle
    /\ ReconcileIdle
    /\ ConfidenceIdle
    /\ PatternIdle
    /\ ParseIdle
    /\ ConcurrentIdle
    /\ RateIdle
    /\ PlaylistIdle
    /\ WorkflowIdle
    /\ LimiterIdle
    /\ OcrIdle

\* score = self.calculate_artist_match_score(artist_name, artist['name'])
Score ==
    /\ spc = "start"
    /\ score' = calculate_artist_match_score(search_name, found_name)
    /\ spc' = "done"
    /\ UNCHANGED <<search_name, found_name>>
    /\ UNCHANGED <<cleanVars, searchVars, aiVars, extractVars, reconcileVars, confidenceVars, patternVars, parseVars, concurrentVars, rateVars, playlistVars, workflowVars, limiterVars, ocrVars>>

ScoreNext == Score

SpecScore == ScoreInit /\ [][ScoreNext]_vars

\* the whitespace-separated tokens of a string, as a set
Tokens(u) ==
    {SubSeq(u, i, j) : <<i, j>> \in
        {w \in (1..Len(u)) \X (1..Len(u)) :
            /\ w[1] <= w[2]
            /\ \A k \in w[1]..w[2] : u[k] \notin Whitespace
            /\ (w[1] = 1 \/ u[w[1] - 1] \in Whitespace)
            /\ (w[2] = Len(u) \/ u[w[2] + 1] \in Whitespace)}}

IsSubstring(a, b) ==
    \E i \in 0..Len(b) : \E j \in 0..Len(b) :
        i + j + Len(a) = Len(b) /\ \A k \in 1..Len(a) : b[i + k] = a[k]

\* C6: the score is 1.0 for names equal after trimming and lower-casing,
\* otherwise 0.9 when one is a substring of the other, otherwise the Jaccard
\* similarity of their lower-cased token sets.
ScoreIsExactSubstringOrJaccard ==
    spc = "done" =>
        LET a == Strip(Lower(search_name))
            b == Strip(Lower(found_name))
        IN IF a = b THEN score = <<1, 1>>
           ELSE IF IsSubstring(a, b) \/ IsSubstring(b, a) THEN score = <<9, 10>>
           ELSE /\ score[2] > 0
                /\ score[1] * Cardinality(Tokens(a) \cup Tokens(b))
                       = Cardinality(Tokens(a) \cap Tokens(b)) * score[2]

\* C6 witness: two names that differ, neither inside the other, sharing one
\* of their two tokens, have been scored 1/2.
ScoredByJaccard ==
    /\ spc = "done"
    /\ search_name = <<"a", " ", "b">>
    /\ found_name = <<"A", " ", "A">>
    /\ score = <<1, 2>>

(***************************************************************************)
(* SpotifyService.search_artist.  The catalog provider is external: a      *)
(* search returns any list of at most MaxResults catalog artists, in the   *)
(* provider's own order, or raises.  An artist is its catalog id (its      *)
(* position in Catalog); 0 is None.                                        *)
(***************************************************************************)
Catalog ==
    << <<"T", "h", "e", " ", "B", "e", "a", "t", "l", "e", "s", " ", "T", "r", "i", "b", "u", "t", "e", " ", "B", "a", "n", "d">>,
       <<"N", "a", "t", "i", "o", "n", "a", "l", " ", "P", "a", "r", "k", " ", "B", "a", "n", "d">>,
       <<"D", "a", "f", "t", " ", "P", "u", "n", "k">>,
       <<"d", "a", "f", "t", " ", "p", "u", "n", "k">>,
       <<"a", " ", "b", " ", "c", " ", "d", " ", "e", " ", "f", " ", "g", " ", "y", " ", "z">>,
       <<"D", "a", "f", "t", " ", "P", "u", "n", "k", " ", "L", "i", "v", "e">> >>

QueryNames ==
    { <<"B", "e", "a", "t", "l", "e", "s">>,
      <<"P", "a", "r", "k">>,
      <<"D", "a", "f", "t", " ", "P", "u", "n", "k">>,
      <<"D", "a", "f", "t", " ", "F", "u", "n", "k">>,
      <<"a", " ", "b", " ", "c", " ", "d", " ", "e", " ", "f", " ", "g", " ", "x">>,
      <<"S", "i", "m", "o", "n", " ", "&", " ", "G", "a", "r", "f", "u", "n", "k", "e", "l">>,
      <<>>, <<" ", " ">> }

CatalogIds == 1..Len(Catalog)

\* results['artists']['items'] of one search
SearchResults == UNION {[1..k -> CatalogIds] : k \in 0..MaxResults}

\* artist_name.strip().replace("&", "and")
ReplaceAmpersand(t) ==
    LET F[i \in 1..(Len(t) + 1)] ==
            IF i > Len(t) THEN <<>>
            ELSE IF t[i] = "&" THEN <<"a", "n", "d">> \o F[i + 1]
            ELSE <<t[i]>> \o F[i + 1]
    IN F[1]

\* best_score > 0.7
AcceptThreshold == <<7, 10>>

Accepts_NonStrict(match, sc) ==
    match # 0 /\ (ScoreGreater(sc, AcceptThreshold) \/ ScoreEqual(sc, AcceptThreshold))

\* if best_match and best_score > 0.7
Accepts(match, sc) == match # 0 /\ ScoreGreater(sc, AcceptThreshold)

Replaces_OnTie(sc, best) == ScoreGreater(sc, best) \/ ScoreEqual(sc, best)

\* if score > best_score
Replaces(sc, best) == ScoreGreater(sc, best)

SearchInit ==
    /\ artist_name \in QueryNames
    /\ is_configured \in BOOLEAN
    /\ cleaned_name = <<>>
    /\ artists = <<>>
    /\ idx = 0
    /\ best_match = 0
    /\ best_score = <<0, 1>>
    /\ found = 0
    /\ log = ""
    /\ mpc = "start"
    /\ CleanIdle
    /\ ScoreIdle
    /\ AIIdle
    /\ ExtractIdle
    /\ ReconcileIdle
    /\ ConfidenceIdle
    /\ PatternIdle
    /\ ParseIdle
    /\ ConcurrentIdle
    /\ RateIdle
    /\ PlaylistIdle
    /\ WorkflowIdle
    /\ LimiterIdle
    /\ OcrIdle

\* if not self.is_configured: return None
SearchNotConfigured ==
    /\ mpc = "start"
    /\ ~is_configured
    /\ log' = "Spotify service not configured"
    /\ found' = 0
    /\ mpc' = "done"
    /\ UNCHANGED <<artist_name, is_configured, cleaned_name, artists, idx,
                   best_match, best_score>>
    /\ UNCHANGED <<cleanVars, scoreVars, aiVars, extractVars, reconcileVars, confidenceVars, patternVars, parseVars, concurrentVars, rateVars, playlistVars, workflowVars, limiterVars, ocrVars>>

\* cleaned_name = ...; results = self.sp_public.search(q='artist:"..."')
SearchQuoted ==
    /\ mpc = "start"
    /\ is_configured
    /\ cleaned_name' = ReplaceAmpersand(Strip(artist_name))
    /\ \E items \in SearchResults :
        /\ artists' = items
        /\ mpc' = IF items = <<>> THEN "retry" ELSE "loop"
    /\ idx' = 1
    /\ UNCHANGED <<artist_name, is_configured, best_match, best_score, found, log>>
    /\ UNCHANGED <<cleanVars, scoreVars, aiVars, extractVars, reconcileVars, confidenceVars, patternVars, parseVars, concurrentVars, rateVars, playlistVars, workflowVars, limiterVars, ocrVars>>

\* if not artists: results = self.sp_public.search(q=cleaned_name)
SearchUnquoted ==
    /\ mpc = "retry"
    /\ \E items \in SearchResults :
        artists' = items
    /\ mpc' = "loop"
    /\ idx' = 1
    /\ UNCHANGED <<artist_name, is_configured, cleaned_name, best_match,
                   best_score, found, log>>
    /\ UNCHANGED <<cleanVars, scoreVars, aiVars, extractVars, reconcileVars, confidenceVars, patternVars, parseVars, concurrentVars, rateVars, playlistVars, workflowVars, limiterVars, ocrVars>>

\* a search raises: except Exception: return None
SearchRaises ==
    /\ \/ mpc = "start" /\ is_configured
       \/ mpc = "retry"
    /\ log' = "Artist search failed"
    /\ found' = 0
    /\ mpc' = "done"
    /\ UNCHANGED <<artist_name, is_configured, cleaned_name, artists, idx,
                   best_match, best_score>>
    /\ UNCHANGED <<cleanVars, scoreVars, aiVars, extractVars, reconcileVars, confidenceVars, patternVars, parseVars, concurrentVars, rateVars, playlistVars, workflowVars, limiterVars, ocrVars>>

\* one iteration of: for artist in artists
ScoreCandidate ==
    /\ mpc = "loop"
    /\ idx <= Len(artists)
    /\ LET sc == calculate_artist_match_score(artist_name, Catalog[artists[idx]])
       IN IF Replaces(sc, best_score)
          THEN best_score' = sc /\ best_match' = artists[idx]
          ELSE UNCHANGED <<best_score, best_match>>
    /\ idx' = idx + 1
    /\ UNCHANGED <<artist_name, is_configured, cleaned_name, artists, found, log, mpc>>
    /\ UNCHANGED <<cleanVars, scoreVars, aiVars, extractVars, reconcileVars, confidenceVars, patternVars, parseVars, concurrentVars, rateVars, playlistVars, workflowVars, limiterVars, ocrVars>>

\* after the loop (or with no artists at all): return the match or None
SelectMatch ==
    /\ mpc = "loop"
    /\ idx > Len(artists)
    /\ IF artists # <<>> /\ Accepts(best_match, best_score)
       THEN log' = "Artist found" /\ found' = best_match
       ELSE log' = "Artist not found" /\ found' = 0
    /\ mpc' = "done"
    /\ UNCHANGED <<artist_name, is_configured, cleaned_name, artists, idx,
                   best_match, best_score>>
    /\ UNCHANGED <<cleanVars, scoreVars, aiVars, extractVars, reconcileVars, confidenceVars, patternVars, parseVars, concurrentVars, rateVars, playlistVars, workflowVars, limiterVars, ocrVars>>

SearchNext ==
    \/ SearchNotConfigured
    \/ SearchQuoted
    \/ SearchUnquoted
    \/ SearchRaises
    \/ ScoreCandidate
    \/ SelectMatch

SpecSearch == SearchInit /\ [][SearchNext]_vars

\* the score of the i-th search result against the queried name
ResultScore(i) == calculate_artist_match_score(artist_name, Catalog[artists[i]])

\* the first, in the provider's order, of the results with the highest score
FirstTop ==
    CHOOSE i \in 1..Len(artists) :
        /\ \A j \in 1..Len(artists) : ~ScoreGreater(ResultScore(j), ResultScore(i))
        /\ \A j \in 1..(i - 1) : ScoreGreater(ResultScore(i), ResultScore(j))

\* the search ran to its end: the service was configured and nothing raised
SearchCompleted == mpc = "done" /\ log \in {"Artist found", "Artist not found"}

\* C5: the result is the first of the highest-scoring candidates when that
\* score is strictly above 0.7, and None otherwise (a top score of exactly
\* 0.7 or below, or no results at all).
SearchSelectsFirstTopAboveThreshold ==
    SearchCompleted =>
        IF artists # <<>> /\ ScoreGreater(ResultScore(FirstTop), <<7, 10>>)
        THEN found = artists[FirstTop]
        ELSE found = 0

\* C5 witness: the provider ranked a non-matching artist first and two
\* equally scored artists after it; the first of the two was returned.
SearchChoseSecondRankedOfTie ==
    /\ SearchCompleted
    /\ artist_name = Catalog[3]
    /\ artists = <<1, 3, 4>>
    /\ found = 3

\* C7: "Beatles" against the single result "The Beatles Tribute Band", and
\* "Park" against "National Park Band", score below 0.7 and return no match.
OneSharedTokenIsRejected ==
    /\ SearchCompleted /\ artist_name = <<"B", "e", "a", "t", "l", "e", "s">>
            /\ artists = <<1>>
        => found = 0 /\ ScoreEqual(best_score, <<1, 4>>)
    /\ SearchCompleted /\ artist_name = <<"P", "a", "r", "k">> /\ artists = <<2>>
        => found = 0

\* C21: search_artist returns None only when the catalog was searched and
\* no entry scored above the threshold, so that None tells "artist not
\* found" from a system failure.  It does not hold: None is also returned
\* when the service is not configured and when a catalog search raises.
NoneOnlyWhenNoEntryScoredAboveThreshold ==
    (mpc = "done" /\ found = 0) =>
        /\ is_configured
        /\ log = "Artist not found"

\* C30: a query name that is empty or only whitespace scores 0.0 against
\* every catalog name and never yields an accepted match.  It does not
\* hold: the empty string is inside every name, which scores 0.9.
EmptyQueryNeverMatches ==
    (mpc \in {"loop", "done"} /\ Split(artist_name) = <<>>) =>
        /\ ScoreEqual(best_score, <<0, 1>>)
        /\ found = 0

(***************************************************************************)
(* The AI extractors.  A model response is modelled by what the parser     *)
(* sees of it: whether a [...] substring is found, whether json.loads      *)
(* accepts it, and the entries of the array.  An entry is a record         *)
(*   dict  - whether it is a JSON object                                   *)
(*   name  - kind "missing", "text", "number" or "null", and its text      *)
(*           (for a number or null: what str() makes of it)                *)
(*   conf  - kind "missing", "number", "text" or "null"; num is the value  *)
(*           as a double;   parses says whether float() accepts a text     *)
(* A candidate is [name, confidence, method, context].  A function's       *)
(* outcome is [raised, value]: it raised, or it returned value.            *)
(***************************************************************************)
excluded_terms ==
    { <<"f", "e", "s", "t", "i", "v", "a", "l">>, <<"m", "u", "s", "i", "c">>,
      <<"s", "t", "a", "g", "e">>, <<"m", "a", "i", "n">>,
      <<"t", "e", "n", "t">>, <<"a", "r", "e", "a">>, <<"z", "o", "n", "e">>,
      <<"t", "i", "c", "k", "e", "t", "s">>, <<"p", "r", "i", "c", "e">>,
      <<"c", "o", "s", "t">>, <<"f", "r", "e", "e">>, <<"a", "d", "m", "i", "s", "s", "i", "o", "n">>,
      <<"e", "n", "t", "r", "y">>, <<"f", "o", "o", "d">>,
      <<"d", "r", "i", "n", "k", "s">>, <<"b", "a", "r">>,
      <<"r", "e", "s", "t", "a", "u", "r", "a", "n", "t">>,
      <<"v", "e", "n", "d", "o", "r">>, <<"p", "a", "r", "k", "i", "n", "g">>,
      <<"s", "h", "u", "t", "t", "l", "e">>, <<"t", "r", "a", "n", "s", "p", "o", "r", "t">>,
      <<"b", "u", "s">>, <<"s", "a", "t", "u", "r", "d", "a", "y">>,
      <<"s", "u", "n", "d", "a", "y">>, <<"m", "o", "n", "d", "a", "y">>,
      <<"t", "u", "e", "s", "d", "a", "y">>, <<"w", "e", "d", "n", "e", "s", "d", "a", "y">>,
      <<"t", "h", "u", "r", "s", "d", "a", "y">>, <<"f", "r", "i", "d", "a", "y">>,
      <<"j", "a", "n", "u", "a", "r", "y">>, <<"f", "e", "b", "r", "u", "a", "r", "y">>,
      <<"m", "a", "r", "c", "h">>, <<"a", "p", "r", "i", "l">>,
      <<"m", "a", "y">>, <<"j", "u", "n", "e">>, <<"j", "u", "l", "y">>,
      <<"a", "u", "g", "u", "s", "t">>, <<"s", "e", "p", "t", "e", "m", "b", "e", "r">>,
      <<"o", "c", "t", "o", "b", "e", "r">>, <<"n", "o", "v", "e", "m", "b", "e", "r">>,
      <<"d", "e", "c", "e", "m", "b", "e", "r">>, <<"a", "m">>,
      <<"p", "m">>, <<"t", "i", "m", "e">>, <<"s", "c", "h", "e", "d", "u", "l", "e">>,
      <<"l", "i", "n", "e", "u", "p">>, <<"s", "p", "o", "n", "s", "o", "r", "e", "d">>,
      <<"p", "r", "e", "s", "e", "n", "t", "s">>, <<"f", "e", "a", "t", "u", "r", "i", "n", "g">>,
      <<"w", "i", "t", "h">> }

Returns(value) == [raised |-> FALSE, value |-> value]
Raises == [raised |-> TRUE, value |-> <<>>]

Candidate(name, confidence, method, context) ==
    [name |-> name, confidence |-> confidence, method |-> method, context |-> context]

Min(a, b) == IF a <= b THEN a ELSE b
Max(a, b) == IF a >= b THEN a ELSE b

\* re.match(r'^\d{1,2}:\d{2}', name)
StartsWithTime(t) ==
    \E d \in {1, 2} :
        /\ \A k \in 1..d : IsDigit(CharAt(t, k))
        /\ CharAt(t, d + 1) = ":"
        /\ IsDigit(CharAt(t, d + 2)) /\ IsDigit(CharAt(t, d + 3))

\* re.match(r'^\d{1,2}(am|pm)', name_lower)
StartsWithAmPm(t) ==
    \E d \in {1, 2} :
        /\ \A k \in 1..d : IsDigit(CharAt(t, k))
        /\ CharAt(t, d + 1) \in {"a", "p"}
        /\ CharAt(t, d + 2) = "m"

\* re.match(r'^\$\d+', name)
StartsWithPrice(t) == CharAt(t, 1) = "$" /\ IsDigit(CharAt(t, 2))

\* GeminiService._is_likely_artist_name
is_likely_artist_name(name) ==
    LET name_lower == Strip(Lower(name))
    IN /\ ~(Len(name) < 2 \/ name_lower \in excluded_terms)
       /\ ~(StartsWithTime(name) \/ StartsWithAmPm(name_lower))
       /\ ~(StartsWithPrice(name) \/ Contains(name_lower, <<"d", "o", "l", "l", "a", "r">>))

\* what the loop body does with one entry: skip it (continue), raise, or
\* append a candidate
Skip == [kind |-> "skip", artist |-> Candidate(<<>>, 0, "", <<>>)]
Raise == [kind |-> "raise", artist |-> Candidate(<<>>, 0, "", <<>>)]
Keep(artist) == [kind |-> "keep", artist |-> artist]

\* One entry in GeminiService._parse_gemini_response; .strip() raises on a
\* name that is no string, a missing confidence defaults to 0.0
GeminiEntry(e) ==
    IF ~e.dict THEN Skip
    ELSE IF e.name.kind \in {"number", "null"} THEN Raise
    ELSE LET name == IF e.name.kind = "missing" THEN <<>> ELSE Strip(e.name.text)
             numeric == e.conf.kind \in {"missing", "number"}
             confidence == IF e.conf.kind = "missing" THEN 0 ELSE e.conf.num
         IN IF name = <<>> \/ ~numeric THEN Skip
            ELSE IF is_likely_artist_name(name)
                 THEN Keep(Candidate(name, Max(0, Min(100000, confidence)), "gemini", <<>>))
                 ELSE Skip

\* the loop over artists_data: raise at the first entry that raises
RECURSIVE GeminiEntries(_)
GeminiEntries(entries) ==
    IF entries = <<>> THEN Returns(<<>>)
    ELSE LET first == GeminiEntry(Head(entries))
             rest == GeminiEntries(Tail(entries))
         IN IF first.kind = "raise" THEN Raises
            ELSE IF rest.raised THEN Raises
            ELSE IF first.kind = "skip" THEN rest
            ELSE Returns(<<first.artist>> \o rest.value)

\* try: ... except json.JSONDecodeError / except Exception: return []
Try(body) == IF body.raised THEN Returns(<<>>) ELSE body

\* GeminiService._parse_gemini_response
parse_gemini_response(body) ==
    Try(IF body.array = "none" THEN Returns(<<>>)
        ELSE IF body.array = "invalid" THEN Raises
        ELSE GeminiEntries(body.entries))

\* GeminiService.extract_artists_from_text and extract_artists_from_image:
\* is_available(), then inside one try the model call, response.text and
\* the parse.  (For the image variant Image.open is part of the call.)
gemini_extract(model_ok, response) ==
    IF ~model_ok THEN Returns(<<>>)
    ELSE Try(IF response.call = "raises" THEN Raises
             ELSE IF response.text = "raises" THEN Raises
             ELSE IF response.text = "empty" THEN Returns(<<>>)
             ELSE parse_gemini_response(response.body))

extract_artists_from_text(model_ok, response) == gemini_extract(model_ok, response)
extract_artists_from_image(model_ok, response) == gemini_extract(model_ok, response)

\* ArtistExtractionService.extract_with_gemini
extract_with_gemini(model_ok, response) ==
    IF ~model_ok THEN Returns(<<>>)
    ELSE Try(extract_artists_from_text(model_ok, response))

\* One entry in extract_with_vertex_ai; str() accepts any name, float()
\* raises on a confidence that is null or no numeric text
VertexEntry(e) ==
    IF ~(e.dict /\ e.name.kind # "missing" /\ e.conf.kind # "missing") THEN Skip
    ELSE IF e.conf.kind = "null" \/ (e.conf.kind = "text" /\ ~e.conf.parses) THEN Raise
    ELSE LET name == Strip(e.name.text)
             confidence == e.conf.num
         IN IF name # <<>> /\ 0 <= confidence /\ confidence <= 100000
            THEN Keep(Candidate(name, confidence, "vertex_ai", <<>>))
            ELSE Skip

RECURSIVE VertexEntries(_)
VertexEntries(entries) ==
    IF entries = <<>> THEN Returns(<<>>)
    ELSE LET first == VertexEntry(Head(entries))
             rest == VertexEntries(Tail(entries))
         IN IF first.kind = "raise" THEN Raises
            ELSE IF rest.raised THEN Raises
            ELSE IF first.kind = "skip" THEN rest
            ELSE Returns(<<first.artist>> \o rest.value)

extract_with_vertex_ai_NoExcept(project, response) ==
    IF ~project THEN Returns(<<>>)
    ELSE IF response.call = "raises" THEN Raises
         ELSE IF response.text = "raises" THEN Raises
         ELSE IF response.text = "empty" \/ response.body.array = "none" THEN Returns(<<>>)
         ELSE IF response.body.array = "invalid" THEN Raises
         ELSE VertexEntries(response.body.entries)

\* ArtistExtractionService.extract_with_vertex_ai: project, then inside
\* one try the model call, response.text.strip(), the search for [...],
\* json.loads and the loop; return [] after the except and when no array
\* is found
extract_with_vertex_ai(project, response) ==
    IF ~project THEN Returns(<<>>)
    ELSE Try(IF response.call = "raises" THEN Raises
             ELSE IF response.text = "raises" THEN Raises
             ELSE IF response.text = "empty" \/ response.body.array = "none" THEN Returns(<<>>)
             ELSE IF response.body.array = "invalid" THEN Raises
             ELSE VertexEntries(response.body.entries))

(***************************************************************************)
(* SpecAI: one call of one of the four AI extraction entry points, for     *)
(* every availability of the provider and every response of ResponseSet.   *)
(***************************************************************************)
Entry(nkind, ntext, ckind, cnum, cparses) ==
    [dict |-> TRUE,
     name |-> [kind |-> nkind, text |-> ntext],
     conf |-> [kind |-> ckind, num |-> cnum, parses |-> cparses]]

NonDict ==
    [dict |-> FALSE,
     name |-> [kind |-> "missing", text |-> <<>>],
     conf |-> [kind |-> "missing", num |-> 0, parses |-> FALSE]]

EntryShapes ==
    { NonDict,
      Entry("text", <<"D", "a", "f", "t", " ", "P", "u", "n", "k">>, "number", 90000, TRUE),
      Entry("text", <<"d", "a", "f", "t", " ", "p", "u", "n", "k">>, "number", 150000, TRUE),
      Entry("text", <<"M", "u", "s", "e">>, "number", 0 - 10000, TRUE),
      Entry("missing", <<>>, "number", 80000, TRUE),
      Entry("number", <<"5">>, "number", 80000, TRUE),
      Entry("null", <<"N", "o", "n", "e">>, "number", 80000, TRUE),
      Entry("text", <<"M", "u", "s", "e">>, "text", 0, FALSE),
      Entry("text", <<"M", "u", "s", "e">>, "text", 60000, TRUE),
      Entry("text", <<" ", " ">>, "number", 80000, TRUE),
      Entry("text", <<"M", "u", "s", "i", "c">>, "number", 95000, TRUE),
      Entry("text", <<"M", "u", "s", "e">>, "missing", 0, FALSE),
      Entry("text", <<"M", "u", "s", "e">>, "null", 0, FALSE),
      Entry("text", <<"3", ":", "0", "0", " ", "M", "u", "s", "e">>, "number", 80000, TRUE),
      Entry("text", <<"$", "5", " ", "M", "u", "s", "e">>, "number", 80000, TRUE) }

Response(call, text, array, entries) ==
    [call |-> call, text |-> text, body |-> [array |-> array, entries |-> entries]]

ResponsesOver(shapes, n) ==
    { Response("raises", "empty", "none", <<>>),
      Response("returns", "raises", "none", <<>>),
      Response("returns", "empty", "none", <<>>),
      Response("returns", "present", "none", <<>>),
      Response("returns", "present", "invalid", <<>>) }
    \cup {Response("returns", "present", "valid", es) : es \in StringsUpTo(shapes, n)}

ResponseSet == ResponsesOver(EntryShapes, MaxEntries)

AIInit ==
    /\ called = ""
    /\ available \in BOOLEAN
    /\ project_id \in BOOLEAN
    /\ resp \in ResponseSet
    /\ outcome = [raised |-> FALSE, value |-> <<>>]
    /\ apc = "start"
    /\ CleanIdle
    /\ ScoreIdle
    /\ SearchIdle
    /\ ExtractIdle
    /\ ReconcileIdle
    /\ ConfidenceIdle
    /\ PatternIdle
    /\ ParseIdle
    /\ ConcurrentIdle
    /\ RateIdle
    /\ PlaylistIdle
    /\ WorkflowIdle
    /\ LimiterIdle
    /\ OcrIdle

AICall(name, result) ==
    /\ apc = "start"
    /\ called' = name
    /\ outcome' = result
    /\ apc' = "done"
    /\ UNCHANGED <<available, project_id, resp>>
    /\ UNCHANGED <<cleanVars, scoreVars, searchVars, extractVars, reconcileVars, confidenceVars, patternVars, parseVars, concurrentVars, rateVars, playlistVars, workflowVars, limiterVars, ocrVars>>

CallExtractWithGemini ==
    AICall("extract_with_gemini", extract_with_gemini(available, resp))

CallExtractWithVertexAI ==
    AICall("extract_with_vertex_ai", extract_with_vertex_ai(project_id, resp))

CallExtractArtistsFromText ==
    AICall("extract_artists_from_text", extract_artists_from_text(available, resp))

CallExtractArtistsFromImage ==
    AICall("extract_artists_from_image", extract_artists_from_image(available, resp))

AINext ==
    \/ CallExtractWithGemini
    \/ CallExtractWithVertexAI
    \/ CallExtractArtistsFromText
    \/ CallExtractArtistsFromImage

SpecAI == AIInit /\ [][AINext]_vars

\* the provider of the entry point called is unavailable
Unavailable ==
    IF called = "extract_with_vertex_ai" THEN ~project_id ELSE ~available

\* the call failed or the response holds no array json.loads accepts
NoArray ==
    \/ resp.call = "raises"
    \/ resp.text \in {"raises", "empty"}
    \/ resp.body.array \in {"none", "invalid"}

\* an entry that is not an object with a string name and a numeric confidence
WrongShape(e) == ~e.dict \/ e.name.kind # "text" \/ e.conf.kind # "number"

\* an entry that is no object, has no name, or whose confidence is null or
\* a text that is no number
Unusable(e) ==
    \/ ~e.dict
    \/ e.name.kind = "missing"
    \/ e.conf.kind = "null"
    \/ e.conf.kind = "text" /\ ~e.conf.parses

EntriesWellFormed ==
    /\ ~Unavailable
    /\ ~NoArray
    /\ \A k \in 1..Len(resp.body.entries) : ~WrongShape(resp.body.entries[k])

\* C18: every candidate an AI extractor emits has a non-empty trimmed name
\* and a confidence in [0,1], and an entry with a name (one that the name
\* filter does not reject) whose numeric confidence is outside [0,1] is
\* kept with the confidence clamped to the nearest bound, by the Gemini and
\* by the Vertex AI extractor.  It does not hold for the Vertex AI
\* extractor, which drops the entry.
OutOfRangeConfidenceIsClamped ==
    apc = "done" =>
        /\ \A k \in 1..Len(outcome.value) :
              /\ outcome.value[k].name # <<>>
              /\ outcome.value[k].name = Strip(outcome.value[k].name)
              /\ outcome.value[k].confidence \in 0..100000
        /\ EntriesWellFormed =>
              \A k \in 1..Len(resp.body.entries) :
                  (/\ is_likely_artist_name(Strip(resp.body.entries[k].name.text))
                   /\ resp.body.entries[k].conf.num \notin 0..100000)
                  => \E j \in 1..Len(outcome.value) :
                        /\ outcome.value[j].name = Strip(resp.body.entries[k].name.text)
                        /\ outcome.value[j].confidence =
                              (IF resp.body.entries[k].conf.num < 0 THEN 0 ELSE 100000)

\* C19: no candidate emitted by an AI extraction variant has a name that
\* is an excluded term, whatever the case of its letters, or that begins
\* with a time of day or a $-price.  It does not hold for the Vertex AI
\* extractor, which does not filter the names.
NoExcludedNameFromAnyAIVariant ==
    apc = "done" =>
        \A k \in 1..Len(outcome.value) :
            /\ Strip(Lower(outcome.value[k].name)) \notin excluded_terms
            /\ ~StartsWithTime(outcome.value[k].name)
            /\ ~StartsWithAmPm(Lower(outcome.value[k].name))
            /\ ~StartsWithPrice(outcome.value[k].name)

(***************************************************************************)
(* ArtistExtractionService.extract_with_patterns and                       *)
(* calculate_pattern_confidence.                                           *)
(***************************************************************************)
filter_words ==
    {
      <<"f", "e", "s", "t", "i", "v", "a", "l">>, <<"f", "e", "s", "t">>,
      <<"m", "u", "s", "i", "c">>, <<"s", "t", "a", "g", "e">>,
      <<"m", "a", "i", "n">>, <<"t", "e", "n", "t">>,
      <<"a", "r", "e", "n", "a">>, <<"h", "a", "l", "l">>,
      <<"p", "r", "e", "s", "e", "n", "t", "s">>,
      <<"f", "e", "a", "t", "u", "r", "i", "n", "g">>,
      <<"w", "i", "t", "h">>, <<"s", "p", "e", "c", "i", "a", "l">>,
      <<"g", "u", "e", "s", "t">>, <<"g", "u", "e", "s", "t", "s">>,
      <<"l", "i", "v", "e">>, <<"c", "o", "n", "c", "e", "r", "t">>,
      <<"s", "h", "o", "w">>,
      <<"p", "e", "r", "f", "o", "r", "m", "a", "n", "c", "e">>,
      <<"e", "v", "e", "n", "t">>, <<"v", "e", "n", "u", "e">>,
      <<"l", "o", "c", "a", "t", "i", "o", "n">>, <<"d", "a", "t", "e">>,
      <<"t", "i", "m", "e">>, <<"t", "i", "c", "k", "e", "t", "s">>,
      <<"a", "d", "m", "i", "s", "s", "i", "o", "n">>,
      <<"p", "r", "i", "c", "e">>, <<"c", "o", "s", "t">>, <<"a", "g", "e">>,
      <<"l", "i", "m", "i", "t">>, <<"d", "o", "o", "r">>,
      <<"d", "o", "o", "r", "s">>, <<"o", "p", "e", "n">>,
      <<"s", "t", "a", "r", "t">>, <<"e", "n", "d">>,
      <<"s", "a", "t", "u", "r", "d", "a", "y">>,
      <<"s", "u", "n", "d", "a", "y">>, <<"m", "o", "n", "d", "a", "y">>,
      <<"t", "u", "e", "s", "d", "a", "y">>,
      <<"w", "e", "d", "n", "e", "s", "d", "a", "y">>,
      <<"t", "h", "u", "r", "s", "d", "a", "y">>,
      <<"f", "r", "i", "d", "a", "y">>,
      <<"j", "a", "n", "u", "a", "r", "y">>,
      <<"f", "e", "b", "r", "u", "a", "r", "y">>,
      <<"m", "a", "r", "c", "h">>, <<"a", "p", "r", "i", "l">>,
      <<"m", "a", "y">>, <<"j", "u", "n", "e">>, <<"j", "u", "l", "y">>,
      <<"a", "u", "g", "u", "s", "t">>,
      <<"s", "e", "p", "t", "e", "m", "b", "e", "r">>,
      <<"o", "c", "t", "o", "b", "e", "r">>,
      <<"n", "o", "v", "e", "m", "b", "e", "r">>,
      <<"d", "e", "c", "e", "m", "b", "e", "r">>, <<"a", "m">>, <<"p", "m">>,
      <<"s", "p", "o", "n", "s", "o", "r", "e", "d">>, <<"b", "y">>,
      <<"p", "r", "e", "s", "e", "n", "t", "e", "d">>,
      <<"p", "r", "o", "d", "u", "c", "e", "d">>,
      <<"o", "r", "g", "a", "n", "i", "z", "e", "d">> }

\* The additions of calculate_pattern_confidence whose IEEE result is not
\* the sum of the decimals: <<a, b, a + b as the hardware rounds it>>
InexactSums ==
    {
      <<30000, 15001, 45000>>, <<39999, 10000, 50000>>, <<39999, 20000, 60000>>,
      <<49999, 10000, 60000>>, <<49999, 15001, 64999>>, <<49999, 20000, 70000>>,
      <<50000, 15001, 65000>>, <<59999, 15001, 74999>>, <<59999, 20000, 79998>>,
      <<60000, (0 - 20000), 39999>>, <<60000, 15001, 75000>>, <<60001, 15001, 75001>>,
      <<60001, 20000, 80000>>, <<70000, (0 - 20000), 49999>>, <<70000, 10000, 79999>>,
      <<70000, 15001, 85000>>, <<70000, 20000, 89999>>, <<79999, 20000, 100000>>,
      <<80000, (0 - 20000), 60001>>, <<90000, 15001, 105000>>, <<90001, 15001, 105001>>,
      <<90001, 20000, 110000>>, <<100000, 15001, 115000>>, <<110000, (0 - 20000), 90001>>,
      <<110000, 10000, 120001>>, <<110000, 15001, 125000>> }

\* a + b, in doubles
FloatAdd(a, b) ==
    IF \E e \in InexactSums : e[1] = a /\ e[2] = b
    THEN (CHOOSE e \in InexactSums : e[1] = a /\ e[2] = b)[3]
    ELSE a + b

\* occurrences * 0.05, in doubles: 3 * 0.05 is 0.15000000000000002
FloatTimes005(occurrences) ==
    IF occurrences = 3 THEN 15001 ELSE occurrences * 5000

\* the positions where needle occurs in hay
OccurrenceStarts(hay, needle) ==
    {j \in 1..(Len(hay) - Len(needle) + 1) :
        SubSeq(hay, j, j + Len(needle) - 1) = needle}

\* the occurrence at position j and those that follow it without
\* overlapping (none: j = 0), m being the length of the needle
RECURSIVE CountFrom(_, _, _)
CountFrom(starts, j, m) ==
    IF j = 0 THEN 0 ELSE 1 + CountFrom(starts, NextStart(starts, j + m), m)

\* hay.count(needle): the occurrences of needle, left to right, not overlapping
Count(hay, needle) ==
    CountFrom(OccurrenceStarts(hay, needle),
              NextStart(OccurrenceStarts(hay, needle), 1), Len(needle))

\* any(c.islower() for c in t), any(c.isdigit() for c in t)
AnyLower(t) == \E i \in 1..Len(t) : IsLower(t[i])
AnyDigit(t) == \E i \in 1..Len(t) : IsDigit(t[i])

\* The adjustments of calculate_pattern_confidence.  One that does not
\* apply is 0: adding 0.0 to a double leaves it as it is.
CapitalizationBoost(match) ==
    IF IsUpper(CharAt(match, 1)) /\ AnyLower(SubSeq(match, 2, Len(match)))
    THEN 20000 ELSE 0

OwnLineBoost(match, line) == IF Strip(line) = Strip(match) THEN 30000 ELSE 0

WordCountBoost(words) == IF 3 <= Len(words) /\ Len(words) <= 4 THEN 10000 ELSE 0

DigitPenalty(match) == IF AnyDigit(match) THEN 0 - 20000 ELSE 0

RepetitionBoost_OfAnyCount(occurrences) ==
    Min(20000, FloatTimes005(occurrences))

RepetitionBoost(occurrences) ==
    IF occurrences > 1 THEN Min(20000, FloatTimes005(occurrences)) ELSE 0

calculate_pattern_confidence(match, line, full_text) ==
    Min(100000, Max(0,
        FloatAdd(FloatAdd(FloatAdd(FloatAdd(FloatAdd(50000,
            CapitalizationBoost(match)),
            OwnLineBoost(match, line)),
            WordCountBoost(Split(match))),
            DigitPenalty(match)),
            RepetitionBoost(Count(Lower(full_text), Lower(match))))))

\* text.split('\n')
SplitLines(t) ==
    LET n == Len(t)
        F[i \in 1..(n + 1)] ==
            LET rest == {b \in i..n : t[b] = "\n"}
                b == CHOOSE x \in rest : \A y \in rest : x <= y
            IN IF rest = {} THEN <<SubSeq(t, i, n)>>
               ELSE <<SubSeq(t, i, b - 1)>> \o F[b + 1]
    IN F[1]

AnyFilterWord_Never(words) == FALSE

\* any(word in self.filter_words for word in words)
AnyFilterWord(words) == \E k \in 1..Len(words) : words[k] \in filter_words

\* the candidate appended for a match of that confidence, if it is above 0.3
CandidateIfLikely(match, line, confidence) ==
    IF confidence > 30000
    THEN <<Candidate(Strip(match), confidence, "pattern_matching", Strip(line))>>
    ELSE <<>>

\* the candidates one match yields: none when a word of it is a filter
\* word or its length is outside 2..50
MatchCandidates(match, line, text) ==
    IF AnyFilterWord(Split(Lower(match))) THEN <<>>
    ELSE IF Len(match) < 2 \/ Len(match) > 50 THEN <<>>
    ELSE CandidateIfLikely(match, line, calculate_pattern_confidence(match, line, text))

\* for match in matches
MatchesCandidates(matches, line, text) ==
    LET F[k \in 0..Len(matches)] ==
            IF k = 0 THEN <<>> ELSE F[k - 1] \o MatchCandidates(matches[k], line, text)
    IN F[Len(matches)]

\* for pattern in self.artist_patterns, on a stripped line
PatternsCandidates(line, text) ==
    LET F[p \in 0..Len(artist_patterns)] ==
            IF p = 0 THEN <<>>
            ELSE F[p - 1] \o MatchesCandidates(FindAll(artist_patterns[p], line), line, text)
    IN F[Len(artist_patterns)]

\* the candidates of one line; a line shorter than two characters after
\* stripping is skipped
LineCandidates(line, text) ==
    IF Len(Strip(line)) < 2 THEN <<>> ELSE PatternsCandidates(Strip(line), text)

\* for line in text_lines
LinesCandidates(text_lines, text) ==
    LET F[k \in 0..Len(text_lines)] ==
            IF k = 0 THEN <<>> ELSE F[k - 1] \o LineCandidates(text_lines[k], text)
    IN F[Len(text_lines)]

SortByConfidence_Unsorted(list) == list

SortByConfidence_TiesReversed(list) ==
    LET F[k \in 0..Len(list)] ==
            IF k = 0 THEN <<>>
            ELSE LET done == F[k - 1]
                     x == list[k]
                     ahead == Cardinality({j \in 1..Len(done) :
                                              done[j].confidence > x.confidence})
                 IN SubSeq(done, 1, ahead) \o <<x>> \o SubSeq(done, ahead + 1, Len(done))
    IN F[Len(list)]

\* sorted(list, key=confidence, reverse=True): stable, so that candidates of
\* equal confidence keep their order
SortByConfidence(list) ==
    LET F[k \in 0..Len(list)] ==
            IF k = 0 THEN <<>>
            ELSE LET done == F[k - 1]
                     x == list[k]
                     ahead == Cardinality({j \in 1..Len(done) :
                                              done[j].confidence >= x.confidence})
                 IN SubSeq(done, 1, ahead) \o <<x>> \o SubSeq(done, ahead + 1, Len(done))
    IN F[Len(list)]

\* the first candidate of every lower-cased name, in order
UniqueByLowerName(list) ==
    LET F[k \in 0..Len(list)] ==
            IF k = 0 THEN <<>>
            ELSE IF \E j \in 1..(k - 1) : Lower(list[j].name) = Lower(list[k].name)
                 THEN F[k - 1]
                 ELSE Append(F[k - 1], list[k])
    IN F[Len(list)]

FirstTwenty_All(list) == list

\* list[:20]
FirstTwenty(list) == SubSeq(list, 1, Min(20, Len(list)))

extract_with_patterns(text) ==
    FirstTwenty(UniqueByLowerName(SortByConfidence(
        LinesCandidates(SplitLines(text), text))))

(***************************************************************************)
(* ArtistExtractionService.extract_artists: the reconciliation of the      *)
(* pattern candidates with the AI candidates.  merged_artists is a dict;   *)
(* it is modelled by the sequence of its values in insertion order, each   *)
(* stored under the name_key of its own name.                              *)
(***************************************************************************)
name_key_CaseSensitive(artist) == artist.name

name_key(artist) == Lower(artist.name)

HigherConfidence_OrEqual(artist, stored) == artist.confidence >= stored.confidence

HigherConfidence_Always(artist, stored) == TRUE

\* whether a candidate replaces the one stored under its key
HigherConfidence(artist, stored) == artist.confidence > stored.confidence

\* one iteration of the merge loop
MergeArtist(merged, artist) ==
    LET hits == {j \in 1..Len(merged) : name_key(merged[j]) = name_key(artist)}
        j == CHOOSE h \in hits : TRUE
    IN IF hits # {}
       THEN IF HigherConfidence(artist, merged[j])
            THEN [merged EXCEPT ![j] = artist]
            ELSE merged
       ELSE Append(merged, artist)

\* the merge loop over all_artists
MergeAll(all) ==
    LET F[k \in 0..Len(all)] ==
            IF k = 0 THEN <<>> ELSE MergeArtist(F[k - 1], all[k])
    IN F[Len(all)]

MeetsThreshold_Always(artist, threshold) == TRUE

MeetsThreshold(artist, threshold) == artist.confidence >= threshold

\* the values of merged_artists that meet the threshold, sorted
FinalArtists(merged, threshold) ==
    LET F[k \in 0..Len(merged)] ==
            IF k = 0 THEN <<>>
            ELSE IF MeetsThreshold(merged[k], threshold)
                 THEN Append(F[k - 1], merged[k])
                 ELSE F[k - 1]
    IN SortByConfidence(F[Len(merged)])

ResultMethod_OfRequest(ai_requested, ai_found) ==
    IF ai_requested THEN "combined" ELSE "pattern_matching"

ResultMethod(ai_requested, ai_found) ==
    IF ai_requested /\ ai_found # <<>> THEN "combined" ELSE "pattern_matching"

\* the dictionary extract_artists returns
ExtractionResult(final, ai_requested, pattern_found, ai_found) ==
    [artists |-> final,
     total_found |-> Len(final),
     method |-> ResultMethod(ai_requested, ai_found),
     pattern_results |-> Len(pattern_found),
     ai_results |-> Len(ai_found)]

\* if not ai_artists: ai_artists = await self.extract_with_vertex_ai(...)
OrVertex(gemini_found, project, vertex) ==
    IF gemini_found # <<>> THEN gemini_found
    ELSE extract_with_vertex_ai(project, vertex).value

\* the AI candidates: none unless requested, else Gemini's, or Vertex AI's
\* when Gemini has none
AIArtists(ai_requested, model_ok, gemini, project, vertex) ==
    IF ~ai_requested THEN <<>>
    ELSE OrVertex(extract_with_gemini(model_ok, gemini).value, project, vertex)

\* what extract_artists returns for those pattern and AI candidates
Reconcile(pattern_found, ai_found, ai_requested, threshold) ==
    ExtractionResult(FinalArtists(MergeAll(pattern_found \o ai_found), threshold),
                     ai_requested, pattern_found, ai_found)

\* extract_artists as a function of its arguments and of the providers
extract_artists(t, ai_requested, threshold, model_ok, gemini, project, vertex) ==
    Reconcile(extract_with_patterns(clean_text(t)),
              AIArtists(ai_requested, model_ok, gemini, project, vertex),
              ai_requested, threshold)

(***************************************************************************)
(* SpecExtract: one call of extract_artists, statement by statement, for   *)
(* every text of ExtractTexts, both values of use_ai and every threshold   *)
(* of Thresholds.  A provider's availability and its response are chosen   *)
(* when the provider is called, and recorded.                              *)
(***************************************************************************)
ExtractTexts ==
    { <<>>,
      <<"s", "e", "e", " ", "D", "a", "f", "t", " ", "P", "u", "n", "k">>,
      <<"D", "a", "f", "t", " ", "P", "u", "n", "k">>,
      
        <<"M", "U", "S", "E", " ", "$", "5", " ", "D", "a", "f", "t", " ", "P", "u", "n", "k", " ", "a", "n", "d", " ", "M", "u", "s", "e">> }

\* 0.0, 0.7 (the default), 0.8 and 1.0
Thresholds == {0, 70000, 80000, 100000}

GeminiShapes ==
    { Entry("text", <<"d", "a", "f", "t", " ", "p", "u", "n", "k">>, "number", 70000, TRUE),
      Entry("text", <<"D", "A", "F", "T", " ", "P", "U", "N", "K">>, "number", 90000, TRUE),
      Entry("text", <<"M", "u", "s", "e">>, "number", 150000, TRUE) }

VertexShapes ==
    { Entry("text", <<"D", "A", "F", "T", " ", "P", "U", "N", "K">>, "number", 90000, TRUE),
      Entry("text", <<"M", "u", "s", "e">>, "text", 0, FALSE) }

\* what a provider can answer: nothing when it is unavailable
ProviderResponses(usable, shapes) ==
    IF usable THEN ResponsesOver(shapes, MaxAIResults) ELSE {NoResponse}

ExtractInit ==
    /\ ocr_text \in ExtractTexts
    /\ use_ai \in BOOLEAN
    /\ confidence_threshold \in Thresholds
    /\ gemini_available = FALSE /\ gemini_response = NoResponse
    /\ vertex_project_id = FALSE /\ vertex_response = NoResponse
    /\ cleaned_text = <<>> /\ pattern_artists = <<>> /\ ai_artists = <<>>
    /\ all_artists = <<>> /\ merged_artists = <<>> /\ cursor = 0
    /\ returned = NoResult
    /\ epc = "start"
    /\ CleanIdle
    /\ ScoreIdle
    /\ SearchIdle
    /\ AIIdle
    /\ ReconcileIdle
    /\ ConfidenceIdle
    /\ PatternIdle
    /\ ParseIdle
    /\ ConcurrentIdle
    /\ RateIdle
    /\ PlaylistIdle
    /\ WorkflowIdle
    /\ LimiterIdle
    /\ OcrIdle

\* cleaned_text = clean_text(text); pattern_artists = extract_with_patterns(...)
ExtractPatterns ==
    /\ epc = "start"
    /\ cleaned_text' = clean_text(ocr_text)
    /\ pattern_artists' = extract_with_patterns(cleaned_text')
    /\ ai_artists' = <<>>
    /\ epc' = IF use_ai THEN "gemini" ELSE "concatenate"
    /\ UNCHANGED <<requestVars, providerVars, all_artists, merged_artists,
                   cursor, returned>>
    /\ UNCHANGED <<cleanVars, scoreVars, searchVars, aiVars, reconcileVars, confidenceVars, patternVars, parseVars, concurrentVars, rateVars, playlistVars, workflowVars, limiterVars, ocrVars>>

\* ai_artists = await extract_with_gemini(cleaned_text)
ExtractGemini ==
    /\ epc = "gemini"
    /\ \E model_ok \in BOOLEAN :
          \E response \in ProviderResponses(model_ok, GeminiShapes) :
             /\ gemini_available' = model_ok
             /\ gemini_response' = response
             /\ ai_artists' = extract_with_gemini(model_ok, response).value
    /\ epc' = IF ai_artists' = <<>> THEN "vertex" ELSE "concatenate"
    /\ UNCHANGED <<vertex_project_id, vertex_response>>
    /\ UNCHANGED <<requestVars, cleaned_text, pattern_artists, all_artists,
                   merged_artists, cursor, returned>>
    /\ UNCHANGED <<cleanVars, scoreVars, searchVars, aiVars, reconcileVars, confidenceVars, patternVars, parseVars, concurrentVars, rateVars, playlistVars, workflowVars, limiterVars, ocrVars>>

\* if not ai_artists: ai_artists = await extract_with_vertex_ai(cleaned_text)
ExtractVertex ==
    /\ epc = "vertex"
    /\ \E project \in BOOLEAN :
          \E response \in ProviderResponses(project, VertexShapes) :
             /\ vertex_project_id' = project
             /\ vertex_response' = response
             /\ ai_artists' = extract_with_vertex_ai(project, response).value
    /\ epc' = "concatenate"
    /\ UNCHANGED <<gemini_available, gemini_response>>
    /\ UNCHANGED <<requestVars, cleaned_text, pattern_artists, all_artists,
                   merged_artists, cursor, returned>>
    /\ UNCHANGED <<cleanVars, scoreVars, searchVars, aiVars, reconcileVars, confidenceVars, patternVars, parseVars, concurrentVars, rateVars, playlistVars, workflowVars, limiterVars, ocrVars>>

\* all_artists = pattern_artists + ai_artists; merged_artists = {}
Concatenate ==
    /\ epc = "concatenate"
    /\ all_artists' = pattern_artists \o ai_artists
    /\ merged_artists' = <<>>
    /\ cursor' = 1
    /\ epc' = "merge"
    /\ UNCHANGED <<requestVars, providerVars, cleaned_text, pattern_artists,
                   ai_artists, returned>>
    /\ UNCHANGED <<cleanVars, scoreVars, searchVars, aiVars, reconcileVars, confidenceVars, patternVars, parseVars, concurrentVars, rateVars, playlistVars, workflowVars, limiterVars, ocrVars>>

\* one iteration of: for artist in all_artists
MergeNext ==
    /\ epc = "merge"
    /\ cursor <= Len(all_artists)
    /\ merged_artists' = MergeArtist(merged_artists, all_artists[cursor])
    /\ cursor' = cursor + 1
    /\ UNCHANGED <<requestVars, providerVars, cleaned_text, pattern_artists,
                   ai_artists, all_artists, returned, epc>>
    /\ UNCHANGED <<cleanVars, scoreVars, searchVars, aiVars, reconcileVars, confidenceVars, patternVars, parseVars, concurrentVars, rateVars, playlistVars, workflowVars, limiterVars, ocrVars>>

\* the loop is over: filter, sort and return
ExtractReturn ==
    /\ epc = "merge"
    /\ cursor > Len(all_artists)
    /\ returned' = ExtractionResult(FinalArtists(merged_artists, confidence_threshold),
                                    use_ai, pattern_artists, ai_artists)
    /\ epc' = "done"
    /\ UNCHANGED <<requestVars, providerVars, cleaned_text, pattern_artists,
                   ai_artists, all_artists, merged_artists, cursor>>
    /\ UNCHANGED <<cleanVars, scoreVars, searchVars, aiVars, reconcileVars, confidenceVars, patternVars, parseVars, concurrentVars, rateVars, playlistVars, workflowVars, limiterVars, ocrVars>>

ExtractNext ==
    \/ ExtractPatterns
    \/ ExtractGemini
    \/ ExtractVertex
    \/ Concatenate
    \/ MergeNext
    \/ ExtractReturn

SpecExtract == ExtractInit /\ [][ExtractNext]_vars

\* the positions of all_artists, among the first n, whose name is that name
\* after lower-casing
SameName(name, n) ==
    {k \in 1..n : k <= Len(all_artists) /\ Lower(all_artists[k].name) = Lower(name)}

\* the highest confidence among the candidates at those positions
MaxConfidence(positions) ==
    CHOOSE c \in {all_artists[k].confidence : k \in positions} :
        \A k \in positions : all_artists[k].confidence <= c

\* the first of those positions whose candidate has that highest confidence
EarliestBest(positions) ==
    CHOOSE k \in positions :
        /\ all_artists[k].confidence = MaxConfidence(positions)
        /\ \A j \in positions :
              all_artists[j].confidence = MaxConfidence(positions) => k <= j

\* C1: the artist list extract_artists returns has no two entries whose
\* names are equal after lower-casing.
NoTwoEntriesShareALowerCasedName ==
    epc = "done" =>
        \A i \in 1..Len(returned.artists) : \A j \in 1..Len(returned.artists) :
            i # j => Lower(returned.artists[i].name) # Lower(returned.artists[j].name)

\* C1 witness: the candidates held the same name in two spellings, and the
\* list returned holds that name.
TwoSpellingsReconciled ==
    /\ epc = "done"
    /\ \E i \in 1..Len(all_artists) : \E j \in 1..Len(all_artists) :
          /\ all_artists[i].name # all_artists[j].name
          /\ Lower(all_artists[i].name) = Lower(all_artists[j].name)
          /\ \E e \in 1..Len(returned.artists) :
                Lower(returned.artists[e].name) = Lower(all_artists[i].name)

\* C2: every entry of the list returned has a confidence of at least the
\* caller's confidence_threshold.
EveryEntryMeetsTheThreshold ==
    epc = "done" =>
        \A i \in 1..Len(returned.artists) :
            returned.artists[i].confidence >= confidence_threshold

\* C2 witness: the merge held a name below the threshold and one at or
\* above it, and only the latter was returned.
BelowThresholdDropped ==
    /\ epc = "done"
    /\ \E j \in 1..Len(merged_artists) : merged_artists[j].confidence < confidence_threshold
    /\ returned.artists # <<>>
    /\ Len(returned.artists) < Len(merged_artists)

\* C3: an entry of the list returned has the highest confidence of the
\* candidates with its lower-cased name, and the method of a candidate that
\* has this confidence.
EntryCarriesTheMaximum ==
    epc = "done" =>
        \A i \in 1..Len(returned.artists) :
            LET e == returned.artists[i]
                same == SameName(e.name, Len(all_artists))
            IN /\ same # {}
               /\ e.confidence = MaxConfidence(same)
               /\ \E k \in same : /\ all_artists[k].confidence = e.confidence
                                  /\ all_artists[k].method = e.method

\* C3 witness: a name came from pattern matching with one confidence and
\* from an AI source with a higher one, and the entry returned is the AI's.
HigherAICandidateWon ==
    /\ epc = "done"
    /\ \E i \in 1..Len(returned.artists) :
          \E k1 \in SameName(returned.artists[i].name, Len(all_artists)) :
          \E k2 \in SameName(returned.artists[i].name, Len(all_artists)) :
             /\ all_artists[k1].method = "pattern_matching"
             /\ all_artists[k2].method # "pattern_matching"
             /\ all_artists[k1].confidence < all_artists[k2].confidence
             /\ returned.artists[i] = all_artists[k2]

\* C9: when use_ai is set and neither AI source yields a candidate (it is
\* unavailable, fails, or finds none), extract_artists returns the artist
\* list it returns for the same text and threshold with use_ai unset, and
\* reports the method "pattern_matching".
DegradesToPatternOnly ==
    (/\ epc = "done"
     /\ use_ai
     /\ extract_with_gemini(gemini_available, gemini_response).value = <<>>
     /\ extract_with_vertex_ai(vertex_project_id, vertex_response).value = <<>>)
    => /\ returned.artists =
              extract_artists(ocr_text, FALSE, confidence_threshold,
                              gemini_available, gemini_response,
                              vertex_project_id, vertex_response).artists
       /\ returned.method = "pattern_matching"

\* C9 witness: use_ai was set, the Gemini call raised, the Vertex AI
\* response could not be used, and artists were returned all the same.
BothAISourcesFailed ==
    /\ epc = "done"
    /\ use_ai
    /\ gemini_available /\ gemini_response.call = "raises"
    /\ vertex_project_id /\ vertex_response.body.array = "valid"
    /\ vertex_response.body.entries # <<>>
    /\ ai_artists = <<>>
    /\ returned.artists # <<>>

\* C10: throughout the merge, the candidate stored for a name is the
\* earliest of the candidates seen so far (pattern candidates first, then AI
\* candidates) that has the highest confidence for this name: a later one
\* of equal confidence does not replace it.
EarliestOfEqualConfidenceIsKept ==
    epc \in {"merge", "done"} =>
        \A j \in 1..Len(merged_artists) :
            LET seen == SameName(merged_artists[j].name, cursor - 1)
            IN seen # {} /\ merged_artists[j] = all_artists[EarliestBest(seen)]

\* C10 witness: pattern matching and an AI source gave the same name, in
\* two spellings, with equal confidence, and the pattern candidate was
\* returned.
TieWentToThePatternCandidate ==
    /\ epc = "done"
    /\ \E k1 \in 1..Len(all_artists) : \E k2 \in 1..Len(all_artists) :
          /\ k1 < k2
          /\ all_artists[k1].method = "pattern_matching"
          /\ all_artists[k2].method # "pattern_matching"
          /\ Lower(all_artists[k1].name) = Lower(all_artists[k2].name)
          /\ all_artists[k1].confidence = all_artists[k2].confidence
          /\ \E i \in 1..Len(returned.artists) : returned.artists[i] = all_artists[k1]

\* the position at which a name, lower-cased, first occurs in all_artists
FirstOccurrence(name) ==
    CHOOSE k \in SameName(name, Len(all_artists)) :
        \A j \in SameName(name, Len(all_artists)) : k <= j

\* C11: the list returned is in order of non-increasing confidence, and
\* entries of equal confidence are in the order in which their lower-cased
\* names first occur in pattern_artists + ai_artists.
SortedByConfidenceThenFirstOccurrence ==
    epc = "done" =>
        \A i \in 1..Len(returned.artists) : \A j \in 1..Len(returned.artists) :
            i < j =>
                /\ returned.artists[i].confidence >= returned.artists[j].confidence
                /\ returned.artists[i].confidence = returned.artists[j].confidence
                      => FirstOccurrence(returned.artists[i].name)
                            < FirstOccurrence(returned.artists[j].name)

\* C11 witness: the list returned holds two names of equal confidence after
\* one of higher confidence that occurs later in the input than both.
EqualConfidencesAfterALaterHigherOne ==
    /\ epc = "done"
    /\ Len(returned.artists) >= 3
    /\ returned.artists[2].confidence = returned.artists[3].confidence
    /\ returned.artists[1].confidence > returned.artists[2].confidence
    /\ FirstOccurrence(returned.artists[1].name) > FirstOccurrence(returned.artists[3].name)

(***************************************************************************)
(* SpecReconcile: the reconciliation of extract_artists (the merge loop,   *)
(* the threshold filter and the sort) applied to a list of candidates, and *)
(* then to every reordering of the list, one swap of neighbours at a time. *)
(***************************************************************************)
CandidatePool ==
    { Candidate(<<"D", "a", "f", "t", " ", "P", "u", "n", "k">>, 70000, "pattern_matching", <<"D", "a", "f", "t", " ", "P", "u", "n", "k">>),
      Candidate(<<"d", "a", "f", "t", " ", "p", "u", "n", "k">>, 70000, "gemini", <<>>),
      Candidate(<<"d", "a", "f", "t", " ", "p", "u", "n", "k">>, 90000, "gemini", <<>>),
      Candidate(<<"M", "u", "s", "e">>, 70000, "pattern_matching", <<"M", "u", "s", "e">>),
      Candidate(<<"M", "u", "s", "e">>, 90000, "vertex_ai", <<>>) }

\* final_artists for those candidates, as lines 283-299 compute it
Ranking(all, threshold) == FinalArtists(MergeAll(all), threshold)

\* the list with the candidates at positions i and i + 1 exchanged
SwapNeighbours(list, i) ==
    [k \in 1..Len(list) |->
        IF k = i THEN list[i + 1] ELSE IF k = i + 1 THEN list[i] ELSE list[k]]

ReconcileInit ==
    /\ candidate_list \in StringsUpTo(CandidatePool, MaxCandidates)
    /\ reordered = candidate_list
    /\ floor \in {0, 80000}
    /\ first_ranking = <<>>
    /\ ranking = <<>>
    /\ rpc = "start"
    /\ CleanIdle
    /\ ScoreIdle
    /\ SearchIdle
    /\ AIIdle
    /\ ExtractIdle
    /\ ConfidenceIdle
    /\ PatternIdle
    /\ ParseIdle
    /\ ConcurrentIdle
    /\ RateIdle
    /\ PlaylistIdle
    /\ WorkflowIdle
    /\ LimiterIdle
    /\ OcrIdle

\* the candidates in the order given
ReconcileGiven ==
    /\ rpc = "start"
    /\ first_ranking' = Ranking(candidate_list, floor)
    /\ ranking' = first_ranking'
    /\ rpc' = "ranked"
    /\ UNCHANGED <<candidate_list, reordered, floor>>
    /\ UNCHANGED <<cleanVars, scoreVars, searchVars, aiVars, extractVars, confidenceVars, patternVars, parseVars, concurrentVars, rateVars, playlistVars, workflowVars, limiterVars, ocrVars>>

\* the same candidates with two neighbours exchanged
ReconcileReordered ==
    /\ rpc = "ranked"
    /\ \E i \in 1..(Len(reordered) - 1) :
          /\ reordered' = SwapNeighbours(reordered, i)
          /\ ranking' = Ranking(reordered', floor)
    /\ UNCHANGED <<candidate_list, floor, first_ranking, rpc>>
    /\ UNCHANGED <<cleanVars, scoreVars, searchVars, aiVars, extractVars, confidenceVars, patternVars, parseVars, concurrentVars, rateVars, playlistVars, workflowVars, limiterVars, ocrVars>>

ReconcileNext ==
    \/ ReconcileGiven
    \/ ReconcileReordered

SpecReconcile == ReconcileInit /\ [][ReconcileNext]_vars

\* the (lower-cased name, confidence) pairs of a list of artists
NameConfidencePairs(list) ==
    {<<Lower(list[k].name), list[k].confidence>> : k \in 1..Len(list)}

\* the confidences of a list of artists, in order
Confidences(list) == [k \in 1..Len(list) |-> list[k].confidence]

\* C12: reconciling the same candidates in any other order gives the same
\* set of (lower-cased name, confidence) pairs and the same sequence of
\* confidences.
RankingIndependentOfInputOrder ==
    rpc = "ranked" =>
        /\ NameConfidencePairs(ranking) = NameConfidencePairs(first_ranking)
        /\ Confidences(ranking) = Confidences(first_ranking)

\* C12 witness: the candidates were reordered and the list returned
\* changed, a name of equal confidence in two spellings being won by the
\* other spelling.
ReorderingChangedTheTieWinner ==
    /\ rpc = "ranked"
    /\ reordered # candidate_list
    /\ ranking # first_ranking
    /\ \E k \in 1..Len(ranking) :
          /\ Lower(ranking[k].name) = Lower(first_ranking[k].name)
          /\ ranking[k].name # first_ranking[k].name

(***************************************************************************)
(* calculate_pattern_confidence applied to a match, the line it was found *)
(* in and the full text.                                                   *)
(***************************************************************************)

\* the matches the confidence is computed for: mixed case, capitals only,
\* three and five words, with a digit, lower case only
ConfidenceMatches ==
    { <<"D", "a", "f", "t", " ", "P", "u", "n", "k">>, <<"M", "U", "S", "E">>, <<"A", "b", " ", "C", "d", " ", "E", "f">>, <<"A", "b", " ", "C", "d", " ", "E", "f", " ", "G", "h", " ", "I", "j">>,
      <<"U", "2">>, <<"A", "b", " ", "C", "1", " ", "E", "f">>, <<"a", "b">>, <<"D", "j", " ", "A", "b", "1">> }

\* "see "
LinePrefix == <<"s", "e", "e", " ">>

\* the line of a match: the match alone, or the match after other words
LineOf(match, alone) == IF alone THEN match ELSE LinePrefix \o match

\* the line, followed by further lines that repeat the match in lower case
RECURSIVE TextRepeating(_, _, _)
TextRepeating(line, match, further) ==
    IF further = 0 THEN line
    ELSE TextRepeating(line, match, further - 1) \o <<"\n">> \o Lower(match)

ConfidenceInit ==
    /\ conf_match \in ConfidenceMatches
    /\ \E alone \in BOOLEAN : conf_line = LineOf(conf_match, alone)
    /\ \E further \in 0..(MaxRepeats - 1) :
          conf_text = TextRepeating(conf_line, conf_match, further)
    /\ conf_value = 0
    /\ kpc = "start"
    /\ CleanIdle
    /\ ScoreIdle
    /\ SearchIdle
    /\ AIIdle
    /\ ExtractIdle
    /\ ReconcileIdle
    /\ PatternIdle
    /\ ParseIdle
    /\ ConcurrentIdle
    /\ RateIdle
    /\ PlaylistIdle
    /\ WorkflowIdle
    /\ LimiterIdle
    /\ OcrIdle

ConfidenceCall ==
    /\ kpc = "start"
    /\ conf_value' = calculate_pattern_confidence(conf_match, conf_line, conf_text)
    /\ kpc' = "done"
    /\ UNCHANGED <<conf_match, conf_line, conf_text>>
    /\ UNCHANGED <<cleanVars, scoreVars, searchVars, aiVars, extractVars, reconcileVars, patternVars, parseVars, concurrentVars, rateVars, playlistVars, workflowVars, limiterVars, ocrVars>>

ConfidenceNext == ConfidenceCall

SpecConfidence == ConfidenceInit /\ [][ConfidenceNext]_vars

\* the decimal number a double is nearest to, on the scale of the model
NearestDecimal(c) == ((c + 5) \div 10) * 10

\* the case-insensitive occurrence count of the match in the full text
Occurrences == Count(Lower(conf_text), Lower(conf_match))

\* 0.5 and the four adjustments that depend on the match and its line
SumBeforeRepetition ==
    50000
    + (IF /\ IsUpper(conf_match[1])
          /\ \E i \in 2..Len(conf_match) : IsLower(conf_match[i])
       THEN 20000 ELSE 0)
    + (IF Strip(conf_line) = conf_match THEN 30000 ELSE 0)
    + (IF Len(Split(conf_match)) \in {3, 4} THEN 10000 ELSE 0)
    - (IF \E i \in 1..Len(conf_match) : IsDigit(conf_match[i]) THEN 20000 ELSE 0)

ClampToUnit(c) == IF c < 0 THEN 0 ELSE IF c > 100000 THEN 100000 ELSE c

\* C13 as stated: the confidence is the clamp to [0,1] of 0.5 + 0.2 + 0.3
\* + 0.1 - 0.2 (each where its condition holds) + min(0.2, occurrences *
\* 0.05).  It does not hold: see the amended statement.
ConfidenceIsTheClampedSum ==
    kpc = "done" =>
        NearestDecimal(conf_value) =
            ClampToUnit(SumBeforeRepetition
                        + (IF Occurrences * 5000 < 20000
                           THEN Occurrences * 5000 ELSE 20000))

\* C13, amended: the confidence is, up to the rounding of double
\* arithmetic, the clamp to [0,1] of 0.5 + 0.2 (first character uppercase
\* and some later character lowercase) + 0.3 (match equals the whole
\* trimmed line) + 0.1 (word count is 3 or 4) - 0.2 (match contains a
\* digit), plus min(0.2, occurrences * 0.05) only when the match occurs
\* more than once in the full text.
ConfidenceIsTheClampedSumRepeatsOnly ==
    kpc = "done" =>
        /\ NearestDecimal(conf_value) =
              ClampToUnit(SumBeforeRepetition
                          + (IF Occurrences <= 1 THEN 0
                             ELSE IF Occurrences * 5000 < 20000
                                  THEN Occurrences * 5000 ELSE 20000))
        /\ conf_value - NearestDecimal(conf_value) \in (0 - 2)..2

\* C13 witness: a three-word match that occurs once, after other words of
\* its line, was given 0.5 + 0.2 + 0.1 and no repetition boost: the double
\* 0.7999999999999999.
SingleOccurrenceGotNoBoost ==
    /\ kpc = "done"
    /\ Occurrences = 1
    /\ Len(Split(conf_match)) = 3
    /\ conf_line # conf_match
    /\ conf_value = 79999

(***************************************************************************)
(* extract_with_patterns applied to a text: lines 80-107 collect the       *)
(* candidates, lines 109-116 sort them and drop the repeated names, line   *)
(* 118 returns the first twenty.                                           *)
(***************************************************************************)

\* "Ca", "Cb", ...: the k-th name of a roster of distinct names
RosterLetters ==
    <<"a", "b", "c", "d", "e", "f", "g", "h", "i", "j", "k", "l", "m", "n",
      "o", "p", "q", "r", "s", "t", "u", "v", "w", "x", "y", "z">>

RosterName(k) == <<"C", RosterLetters[k]>>

\* ", "
Comma == <<",", " ">>

\* before and after joined by ", ", unless one of them is empty
Listed(before, after) ==
    IF before = <<>> THEN after
    ELSE IF after = <<>> THEN before
    ELSE before \o Comma \o after

\* the first n names of the roster, separated by ", "
RECURSIVE Roster(_)
Roster(n) == IF n = 0 THEN <<>> ELSE Listed(Roster(n - 1), RosterName(n))

\* a name of n words "Zz": 3n - 1 characters
RECURSIVE LongName(_)
LongName(n) ==
    IF n = 1 THEN <<"Z", "z">> ELSE LongName(n - 1) \o <<" ", "Z", "z">>

\* what a flyer starts with: nothing, a schedule line, a name in capitals
\* and in mixed case, a name alone, a single capital and names joined by
\* &, a name after other words and then on a line of its own, names of 50
\* and of 53 characters
PatternHeaders ==
    { <<>>,
      <<"3", ":", "0", "0", " ", "P", "M", " ", "D", "o", "o", "r", "s", " ", "O", "p", "e", "n">>,
      <<"M", "U", "S", "E", " ", "a", "n", "d", " ", "M", "u", "s", "e">>,
      <<"D", "a", "f", "t", " ", "P", "u", "n", "k">>,
      <<"s", "e", "e", " ", "A", ",", " ", "D", "a", "f", "t", " ", "P", "u", "n", "k", " ", "&", " ", "M", "u", "s", "e">>,
      <<"s", "e", "e", " ", "D", "a", "f", "t", " ", "P", "u", "n", "k", "\n", "D", "a", "f", "t", " ", "P", "u", "n", "k">>,
      LongName(17), LongName(18) }

PatternTexts ==
    { Listed(header, Roster(n)) : header \in PatternHeaders, n \in 0..MaxRoster }

PatternInit ==
    /\ pat_text \in PatternTexts
    /\ potential_artists = <<>>
    /\ unique_artists = <<>>
    /\ extracted = <<>>
    /\ ppc = "start"
    /\ CleanIdle
    /\ ScoreIdle
    /\ SearchIdle
    /\ AIIdle
    /\ ExtractIdle
    /\ ReconcileIdle
    /\ ConfidenceIdle
    /\ ParseIdle
    /\ ConcurrentIdle
    /\ RateIdle
    /\ PlaylistIdle
    /\ WorkflowIdle
    /\ LimiterIdle
    /\ OcrIdle

\* lines 80-107
PatternCollect ==
    /\ ppc = "start"
    /\ potential_artists' = LinesCandidates(SplitLines(pat_text), pat_text)
    /\ ppc' = "collected"
    /\ UNCHANGED <<pat_text, unique_artists, extracted>>
    /\ UNCHANGED <<cleanVars, scoreVars, searchVars, aiVars, extractVars, reconcileVars, confidenceVars, parseVars, concurrentVars, rateVars, playlistVars, workflowVars, limiterVars, ocrVars>>

\* lines 109-116
PatternDeduplicate ==
    /\ ppc = "collected"
    /\ unique_artists' = UniqueByLowerName(SortByConfidence(potential_artists))
    /\ ppc' = "unique"
    /\ UNCHANGED <<pat_text, potential_artists, extracted>>
    /\ UNCHANGED <<cleanVars, scoreVars, searchVars, aiVars, extractVars, reconcileVars, confidenceVars, parseVars, concurrentVars, rateVars, playlistVars, workflowVars, limiterVars, ocrVars>>

\* line 118
PatternReturn ==
    /\ ppc = "unique"
    /\ extracted' = FirstTwenty(unique_artists)
    /\ ppc' = "returned"
    /\ UNCHANGED <<pat_text, potential_artists, unique_artists>>
    /\ UNCHANGED <<cleanVars, scoreVars, searchVars, aiVars, extractVars, reconcileVars, confidenceVars, parseVars, concurrentVars, rateVars, playlistVars, workflowVars, limiterVars, ocrVars>>

PatternNext == PatternCollect \/ PatternDeduplicate \/ PatternReturn

SpecPatterns == PatternInit /\ [][PatternNext]_vars

\* the positions of the collected candidates that have the name of
\* candidate c, whatever the case of its letters
SameNameCollected(c) ==
    {p \in 1..Len(potential_artists) :
        Lower(potential_artists[p].name) = Lower(c.name)}

\* C14: the list returned by extract_with_patterns has no two candidates
\* with the same lower-cased name, and the candidate kept for a name is the
\* earliest of the collected candidates of that name that have the highest
\* confidence among them.
KeptIsTheHighestScoringDuplicate ==
    ppc = "returned" =>
        /\ \A i, j \in 1..Len(extracted) :
              i # j => Lower(extracted[i].name) # Lower(extracted[j].name)
        /\ \A k \in 1..Len(extracted) :
              /\ \A p \in SameNameCollected(extracted[k]) :
                    potential_artists[p].confidence <= extracted[k].confidence
              /\ \E p \in SameNameCollected(extracted[k]) :
                    /\ potential_artists[p] = extracted[k]
                    /\ \A q \in SameNameCollected(extracted[k]) :
                          q < p => potential_artists[q].confidence
                                      < extracted[k].confidence

\* C14 witness: a name was collected twice, the second time with a higher
\* confidence, and the second candidate is the one returned.
LaterDuplicateScoredHigherAndWasKept ==
    /\ ppc = "returned"
    /\ \E p, q \in 1..Len(potential_artists) :
          /\ p < q
          /\ Lower(potential_artists[p].name) = Lower(potential_artists[q].name)
          /\ potential_artists[p].confidence < potential_artists[q].confidence
          /\ \E k \in 1..Len(extracted) : extracted[k] = potential_artists[q]

\* C15: extract_with_patterns returns at most 20 candidates, in
\* non-increasing order of confidence, each with a confidence above 0.3 and
\* within [0,1]; no deduplicated candidate that was left out has a higher
\* confidence than a returned one; the empty text gives the empty list.
AtMostTwentyBestInOrder ==
    ppc = "returned" =>
        /\ Len(extracted) <= 20
        /\ \A k \in 1..(Len(extracted) - 1) :
              extracted[k].confidence >= extracted[k + 1].confidence
        /\ \A k \in 1..Len(extracted) :
              /\ extracted[k].confidence > 30000
              /\ extracted[k].confidence \in 0..100000
        /\ \A u \in 1..Len(unique_artists) :
              (\A k \in 1..Len(extracted) : extracted[k] # unique_artists[u])
              => \A k \in 1..Len(extracted) :
                    unique_artists[u].confidence <= extracted[k].confidence
        /\ pat_text = <<>> => extracted = <<>>

\* C15 witness: more than twenty names were found, twenty were returned and
\* one that was left out has a lower confidence than the first returned.
TwentyReturnedOfMore ==
    /\ ppc = "returned"
    /\ Len(unique_artists) > 20
    /\ Len(extracted) = 20
    /\ unique_artists[Len(unique_artists)].confidence < extracted[1].confidence

\* "3:00 PM Doors Open"
ScheduleLine == <<"3", ":", "0", "0", " ", "P", "M", " ", "D", "o", "o", "r", "s", " ", "O", "p", "e", "n">>

\* C16: no candidate returned by extract_with_patterns has a lower-cased
\* whitespace-separated word in the stop-word set, or a name shorter than 2
\* or longer than 50 characters; the line "3:00 PM Doors Open" gives no
\* candidate.
NoStopWordAndLengthWithinLimits ==
    ppc = "returned" =>
        /\ \A k \in 1..Len(extracted) :
              /\ \A w \in 1..Len(Split(Lower(extracted[k].name))) :
                    Split(Lower(extracted[k].name))[w] \notin filter_words
              /\ Len(extracted[k].name) >= 2
              /\ Len(extracted[k].name) <= 50
        /\ pat_text = ScheduleLine => extracted = <<>>

\* C16 witness: the text begins with the schedule line, whose capitalised
\* words are stop words, and goes on with names: only the names that
\* follow it were returned.
ScheduleLineGaveNoCandidate ==
    /\ ppc = "returned"
    /\ Len(pat_text) > Len(ScheduleLine)
    /\ SubSeq(pat_text, 1, Len(ScheduleLine)) = ScheduleLine
    /\ Len(extracted) > 0
    /\ \A k \in 1..Len(extracted) : Len(extracted[k].name) = 2

(***************************************************************************)
(* The search for the JSON array in a model response, by                  *)
(* GeminiService._parse_gemini_response (re.search(r'\[.*?\]', ...)) and   *)
(* by extract_with_vertex_ai (re.search(r'\[.*\]', ...)), and json.loads   *)
(* of what was found.  A response text is a sequence of symbols:           *)
(*   "["  "]"   the bracket characters                                     *)
(*   "prose"    text without a bracket or quote that is no JSON value      *)
(*   "entry"    an object {"name": ..., "confidence": ...} without a       *)
(*              bracket in it                                              *)
(*   "name<"    the text of an entry object up to and into its name        *)
(*              string: {"name": "Muse                                     *)
(*   ">name"    the text from inside the name string of an entry object to *)
(*              its end: live", "confidence": 0.8}                         *)
(* The brackets and the prose between a "name<" and the next ">name" are   *)
(* inside the name; the quotes of any other symbol would end the string.   *)
(* The commas between the elements of an array go with the elements.       *)
(***************************************************************************)
ResponseSymbols == {"[", "]", "prose", "entry", "name<", ">name"}

\* the symbols whose text has a double quote
QuoteSymbols == {"entry", "name<", ">name"}

\* the least position from i on where t has a symbol with a quote, or 0
NextQuote(t, i) ==
    IF \A j \in i..Len(t) : t[j] \notin QuoteSymbols THEN 0
    ELSE CHOOSE j \in i..Len(t) :
            t[j] \in QuoteSymbols /\ \A k \in i..(j - 1) : t[k] \notin QuoteSymbols

\* the least position from i on where t has symbol s, or 0
NextSymbol(t, i, s) ==
    IF \A j \in i..Len(t) : t[j] # s THEN 0
    ELSE CHOOSE j \in i..Len(t) : t[j] = s /\ \A k \in i..(j - 1) : t[k] # s

\* the greatest position where t has symbol s, or 0
LastSymbol(t, s) ==
    IF \A j \in 1..Len(t) : t[j] # s THEN 0
    ELSE CHOOSE j \in 1..Len(t) : t[j] = s /\ \A k \in (j + 1)..Len(t) : t[k] # s

\* re.search(r'\[.*?\]', t, re.DOTALL).group(): from the first "[" to the
\* first "]" after it; <<>> when there is no match
SearchShortest(t) ==
    IF NextSymbol(t, 1, "[") = 0 \/ NextSymbol(t, NextSymbol(t, 1, "["), "]") = 0
    THEN <<>>
    ELSE SubSeq(t, NextSymbol(t, 1, "["), NextSymbol(t, NextSymbol(t, 1, "["), "]"))

\* re.search(r'\[.*\]', t, re.DOTALL).group(): from the first "[" to the
\* last "]" after it; <<>> when there is no match
SearchLongest(t) ==
    IF NextSymbol(t, 1, "[") = 0 \/ LastSymbol(t, "]") < NextSymbol(t, 1, "[")
    THEN <<>>
    ELSE SubSeq(t, NextSymbol(t, 1, "["), LastSymbol(t, "]"))

\* json.loads: the position after the JSON value that starts at position
\* i (an entry object, an entry object with the symbols of its name, or an
\* array), or 0 when none does; for an array, k is where its elements go on
RECURSIVE ValueEnd(_, _), ElementsEnd(_, _)
ValueEnd(t, i) ==
    IF CharAt(t, i) = "entry" THEN i + 1
    ELSE IF CharAt(t, i) = "name<"
         THEN (IF CharAt(t, NextQuote(t, i + 1)) = ">name"
               THEN NextQuote(t, i + 1) + 1 ELSE 0)
    ELSE IF CharAt(t, i) = "[" THEN ElementsEnd(t, i + 1)
    ELSE 0

ElementsEnd(t, k) ==
    IF CharAt(t, k) = "]" THEN k + 1
    ELSE IF ValueEnd(t, k) = 0 THEN 0
    ELSE ElementsEnd(t, ValueEnd(t, k))

\* the entry json.loads makes of the value at position i: a dict with the
\* name and the confidence, or a list, which is no dict
BracketName == <<"M", "u", "s", "e", " ", "[", "l", "i", "v", "e", "]">>

EntryAt(t, i) ==
    IF t[i] = "entry" THEN Entry("text", <<"M", "u", "s", "e">>, "number", 90000, TRUE)
    ELSE IF t[i] = "name<" THEN Entry("text", BracketName, "number", 80000, TRUE)
    ELSE NonDict

\* the elements of a well-formed array from position k of it on
RECURSIVE ElementsFrom(_, _)
ElementsFrom(t, k) ==
    IF t[k] = "]" THEN <<>>
    ELSE <<EntryAt(t, k)>> \o ElementsFrom(t, ValueEnd(t, k))

\* whether json.loads accepts s: one array and nothing after it
IsJsonArray(s) == s # <<>> /\ ValueEnd(s, 1) = Len(s) + 1

\* what the parser sees of the response: no [...] substring, one json.loads
\* refuses, or the entries of the array
BodyOf(s) ==
    IF s = <<>> THEN [array |-> "none", entries |-> <<>>]
    ELSE IF ~IsJsonArray(s) THEN [array |-> "invalid", entries |-> <<>>]
    ELSE [array |-> "valid", entries |-> ElementsFrom(s, 2)]

ParseInit ==
    /\ response_text \in StringsUpTo(ResponseSymbols, MaxSymbols)
    /\ parser = ""
    /\ json_str = <<>>
    /\ artists_data = <<>>
    /\ parsed_artists = <<>>
    /\ qpc = "start"
    /\ CleanIdle
    /\ ScoreIdle
    /\ SearchIdle
    /\ AIIdle
    /\ ExtractIdle
    /\ ReconcileIdle
    /\ ConfidenceIdle
    /\ PatternIdle
    /\ ConcurrentIdle
    /\ RateIdle
    /\ PlaylistIdle
    /\ WorkflowIdle
    /\ LimiterIdle
    /\ OcrIdle

\* GeminiService._parse_gemini_response(response_text)
ParseGemini ==
    /\ qpc = "start"
    /\ parser' = "gemini"
    /\ json_str' = SearchShortest(response_text)
    /\ artists_data' = BodyOf(json_str').entries
    /\ parsed_artists' = parse_gemini_response(BodyOf(json_str')).value
    /\ qpc' = "done"
    /\ UNCHANGED response_text
    /\ UNCHANGED <<cleanVars, scoreVars, searchVars, aiVars, extractVars, reconcileVars, confidenceVars, patternVars, concurrentVars, rateVars, playlistVars, workflowVars, limiterVars, ocrVars>>

\* extract_with_vertex_ai, from response.text on (lines 207-233)
ParseVertex ==
    /\ qpc = "start"
    /\ parser' = "vertex_ai"
    /\ json_str' = SearchLongest(response_text)
    /\ artists_data' = BodyOf(json_str').entries
    /\ parsed_artists' =
          extract_with_vertex_ai(TRUE, [call |-> "returns", text |-> "present",
                                        body |-> BodyOf(json_str')]).value
    /\ qpc' = "done"
    /\ UNCHANGED response_text
    /\ UNCHANGED <<cleanVars, scoreVars, searchVars, aiVars, extractVars, reconcileVars, confidenceVars, patternVars, concurrentVars, rateVars, playlistVars, workflowVars, limiterVars, ocrVars>>

ParseNext == ParseGemini \/ ParseVertex

SpecParse == ParseInit /\ [][ParseNext]_vars

\* the positions of the response where a well-formed array starts
WellFormedArrayStarts ==
    {i \in 1..Len(response_text) :
        response_text[i] = "[" /\ ValueEnd(response_text, i) > 0}

\* the entries of the first well-formed array of the response; none when
\* the response has no well-formed array
EntriesOfFirstWellFormedArray ==
    IF WellFormedArrayStarts = {} THEN <<>>
    ELSE ElementsFrom(response_text,
                      (CHOOSE i \in WellFormedArrayStarts :
                          \A j \in WellFormedArrayStarts : i <= j) + 1)

\* C20: the entries parsed are those of the first well-formed,
\* bracket-balanced [...] substring of the response, whatever brackets are
\* inside it (nested arrays, brackets in a name) or in the prose around
\* it.  It does not hold: the Gemini parser cuts at the first "]" and the
\* Vertex AI extractor at the last one.
ParsesTheFirstWellFormedArray ==
    qpc = "done" => artists_data = EntriesOfFirstWellFormedArray

(***************************************************************************)
(* SpecConcurrent: MaxRequests calls of extract_artists on the singleton   *)
(* service of get_artist_service, interleaved at the await points (the     *)
(* call of extract_with_gemini, the call of extract_with_vertex_ai).  The  *)
(* service holds what __init__ set: whether the Gemini model and the       *)
(* Vertex AI project are there.  Everything else extract_artists touches   *)
(* is a local variable of the call.                                        *)
(***************************************************************************)
RequestArguments(t, ai, threshold, gemini, vertex) ==
    [text |-> t, use_ai |-> ai, threshold |-> threshold,
     gemini |-> gemini, vertex |-> vertex]

\* a response holding one entry of that name and confidence
OneEntryResponse(name, confidence) ==
    Response("returns", "present", "valid",
             <<Entry("text", name, "number", confidence, TRUE)>>)

\* the requests: the text, use_ai, the threshold and what each provider
\* answers to that request
ConcurrentRequests ==
    { RequestArguments(<<"D", "a", "f", "t", " ", "P", "u", "n", "k">>, TRUE, 70000,
                       OneEntryResponse(<<"M", "u", "s", "e">>, 150000),
                       OneEntryResponse(<<"D", "A", "F", "T", " ", "P", "U", "N", "K">>, 90000)),
      RequestArguments(<<"M", "U", "S", "E", " ", "$", "5", " ", "D", "a", "f", "t", " ", "P", "u", "n", "k", " ", "a", "n", "d", " ", "M", "u", "s", "e">>, TRUE, 0,
                       Response("returns", "empty", "none", <<>>),
                       OneEntryResponse(<<"O", "x">>, 90000)),
      RequestArguments(<<"s", "e", "e", " ", "D", "a", "f", "t", " ", "P", "u", "n", "k">>, FALSE, 80000,
                       OneEntryResponse(<<"M", "u", "s", "e">>, 90000),
                       OneEntryResponse(<<"M", "u", "s", "e">>, 90000)) }

RequestIds == 1..MaxRequests

NoLocals == [cleaned_text |-> <<>>, pattern_artists |-> <<>>, ai_artists |-> <<>>]

FrameOf_Shared(request) == 1

\* the local variables of a call are those of its own coroutine frame
FrameOf(request) == request

ConcurrentInit ==
    /\ svc_state \in [gemini_ok : BOOLEAN, project : BOOLEAN]
    /\ req_in \in [RequestIds -> ConcurrentRequests]
    /\ frames = [r \in RequestIds |-> NoLocals]
    /\ req_out = [r \in RequestIds |-> NoResult]
    /\ tpc = [r \in RequestIds |-> "start"]
    /\ CleanIdle
    /\ ScoreIdle
    /\ SearchIdle
    /\ AIIdle
    /\ ExtractIdle
    /\ ReconcileIdle
    /\ ConfidenceIdle
    /\ PatternIdle
    /\ ParseIdle
    /\ RateIdle
    /\ PlaylistIdle
    /\ WorkflowIdle
    /\ LimiterIdle
    /\ OcrIdle

\* lines 267-275: up to the first await, or to line 281 without AI
RequestBegins(r) ==
    /\ tpc[r] = "start"
    /\ frames' = [frames EXCEPT ![FrameOf(r)] =
                    [cleaned_text |-> clean_text(req_in[r].text),
                     pattern_artists |-> extract_with_patterns(clean_text(req_in[r].text)),
                     ai_artists |-> <<>>]]
    /\ tpc' = [tpc EXCEPT ![r] = IF req_in[r].use_ai THEN "gemini" ELSE "merge"]
    /\ UNCHANGED <<svc_state, req_in, req_out>>
    /\ UNCHANGED <<cleanVars, scoreVars, searchVars, aiVars, extractVars, reconcileVars, confidenceVars, patternVars, parseVars, rateVars, playlistVars, workflowVars, limiterVars, ocrVars>>

\* line 276: ai_artists = await self.extract_with_gemini(cleaned_text)
RequestAwaitsGemini(r) ==
    /\ tpc[r] = "gemini"
    /\ frames' = [frames EXCEPT ![FrameOf(r)].ai_artists =
                    extract_with_gemini(svc_state.gemini_ok, req_in[r].gemini).value]
    /\ tpc' = [tpc EXCEPT ![r] =
                 IF extract_with_gemini(svc_state.gemini_ok, req_in[r].gemini).value = <<>>
                 THEN "vertex" ELSE "merge"]
    /\ UNCHANGED <<svc_state, req_in, req_out>>
    /\ UNCHANGED <<cleanVars, scoreVars, searchVars, aiVars, extractVars, reconcileVars, confidenceVars, patternVars, parseVars, rateVars, playlistVars, workflowVars, limiterVars, ocrVars>>

\* lines 278-279: ai_artists = await self.extract_with_vertex_ai(cleaned_text)
RequestAwaitsVertex(r) ==
    /\ tpc[r] = "vertex"
    /\ frames' = [frames EXCEPT ![FrameOf(r)].ai_artists =
                    extract_with_vertex_ai(svc_state.project, req_in[r].vertex).value]
    /\ tpc' = [tpc EXCEPT ![r] = "merge"]
    /\ UNCHANGED <<svc_state, req_in, req_out>>
    /\ UNCHANGED <<cleanVars, scoreVars, searchVars, aiVars, extractVars, reconcileVars, confidenceVars, patternVars, parseVars, rateVars, playlistVars, workflowVars, limiterVars, ocrVars>>

\* lines 281-314: merge, filter, sort and return
RequestReturns(r) ==
    /\ tpc[r] = "merge"
    /\ req_out' = [req_out EXCEPT ![r] =
                     Reconcile(frames[FrameOf(r)].pattern_artists,
                               frames[FrameOf(r)].ai_artists,
                               req_in[r].use_ai, req_in[r].threshold)]
    /\ tpc' = [tpc EXCEPT ![r] = "done"]
    /\ UNCHANGED <<svc_state, req_in, frames>>
    /\ UNCHANGED <<cleanVars, scoreVars, searchVars, aiVars, extractVars, reconcileVars, confidenceVars, patternVars, parseVars, rateVars, playlistVars, workflowVars, limiterVars, ocrVars>>

ConcurrentNext ==
    \E r \in RequestIds :
        \/ RequestBegins(r)
        \/ RequestAwaitsGemini(r)
        \/ RequestAwaitsVertex(r)
        \/ RequestReturns(r)

SpecConcurrent == ConcurrentInit /\ [][ConcurrentNext]_vars

\* what request r returns when it runs alone on the service
ResultAlone(r) ==
    extract_artists(req_in[r].text, req_in[r].use_ai, req_in[r].threshold,
                    svc_state.gemini_ok, req_in[r].gemini,
                    svc_state.project, req_in[r].vertex)

\* the candidates request r has of its own: those of its text and those of
\* the answers the providers gave to it
OwnCandidates(r) ==
    SetOf(extract_with_patterns(clean_text(req_in[r].text))
          \o AIArtists(req_in[r].use_ai, svc_state.gemini_ok, req_in[r].gemini,
                       svc_state.project, req_in[r].vertex))

\* C22: requests interleaved at their await points on the shared service
\* each return what they return when run alone, and every candidate a
\* request returns is one of its own.
ConcurrentRequestsAreIndependent ==
    \A r \in RequestIds :
        tpc[r] = "done" =>
            /\ req_out[r] = ResultAlone(r)
            /\ SetOf(req_out[r].artists) \subseteq OwnCandidates(r)

\* C22 witness: the second request ran from start to end while the first,
\* with other arguments, was suspended at its Vertex AI call, and both
\* have candidates.
RequestCompletedWhileAnotherWasSuspended ==
    /\ tpc[1] = "vertex"
    /\ tpc[2] = "done"
    /\ req_in[1] # req_in[2]
    /\ frames[1].pattern_artists # <<>>
    /\ req_out[2].artists # <<>>
    /\ req_out[2].artists # ResultAlone(1).artists

(***************************************************************************)
(* SpecDaily and SpecRace: rate_limit_middleware on the rate-limited       *)
(* paths, for the requests of one user.  check_rate_limit runs before the  *)
(* handler (call_next), increment_analysis_count after it.  In SpecDaily   *)
(* a request comes only when no other is in the handler; in SpecRace the   *)
(* requests interleave at the await of call_next.  The user's document is  *)
(* the fields of users/{user_id} that the limit reads and writes.          *)
(***************************************************************************)
UserDoc(exists, daily, image, has_date, date) ==
    [exists |-> exists, daily_analyses_count |-> daily, image_analyses_count |-> image,
     has_reset_date |-> has_date, rate_limit_reset_date |-> date]

\* create_or_update_user(user_id, {}): a document that is not there gets
\* image_analyses_count 0 and neither a daily count nor a reset date
create_or_update_user(doc, is_available) ==
    IF ~ is_available \/ doc.exists THEN doc
    ELSE UserDoc(TRUE, 0, 0, FALSE, 0)

CheckResult(is_allowed, remaining, doc) ==
    [is_allowed |-> is_allowed, remaining |-> remaining, doc |-> doc]

\* update({'daily_analyses_count': 0, 'rate_limit_reset_date': utcnow()})
ResetDaily(doc, today) ==
    [doc EXCEPT !.daily_analyses_count = 0,
                !.has_reset_date = TRUE,
                !.rate_limit_reset_date = today]

check_rate_limit_NoReset(doc, is_available, today, limit) ==
    IF ~ is_available THEN CheckResult(TRUE, limit, doc)
    ELSE IF ~ doc.exists
         THEN CheckResult(TRUE, limit - 1, create_or_update_user(doc, is_available))
    ELSE IF doc.daily_analyses_count >= limit THEN CheckResult(FALSE, 0, doc)
    ELSE CheckResult(TRUE, limit - doc.daily_analyses_count, doc)

check_rate_limit(doc, is_available, today, limit) ==
    IF ~ is_available THEN CheckResult(TRUE, limit, doc)
    ELSE IF ~ doc.exists
         THEN CheckResult(TRUE, limit - 1, create_or_update_user(doc, is_available))
    ELSE IF doc.has_reset_date /\ doc.rate_limit_reset_date < today
         THEN CheckResult(TRUE, limit - 1, ResetDaily(doc, today))
    ELSE IF ~ doc.has_reset_date
         THEN CheckResult(TRUE, limit - 1, ResetDaily(doc, today))
    ELSE IF doc.daily_analyses_count >= limit THEN CheckResult(FALSE, 0, doc)
    ELSE CheckResult(TRUE, limit - doc.daily_analyses_count, doc)

\* update with Increment(1) of both counts; a missing count starts at 0;
\* the update of a document that is not there raises and changes nothing
increment_analysis_count(doc, is_available) ==
    IF ~ is_available \/ ~ doc.exists THEN doc
    ELSE [doc EXCEPT !.daily_analyses_count = @ + 1,
                     !.image_analyses_count = @ + 1]

Callers == 1..MaxCallers

HandlerStatus == {200, 500}

NoRequest ==
    [pc |-> "idle", user_id |-> FALSE, remaining |-> 0, day |-> 0]

\* the response sent last: its status, its X-RateLimit-Remaining, whether
\* the request had a user id, and the day the request was checked
Sent(status, remaining, has_user_id, day) ==
    [status |-> status, remaining |-> remaining, user_id |-> has_user_id, day |-> day]

\* the documents a user can have when the day begins: none; one made by
\* create_or_update_user, never checked; one last reset the day before
DocsAtDayStart(limit) ==
    {UserDoc(FALSE, 0, 0, FALSE, 0), UserDoc(TRUE, 0, 0, FALSE, 0)}
        \cup {UserDoc(TRUE, n, n, TRUE, 0) : n \in 0..limit}

RateInit ==
    /\ fb_available \in BOOLEAN
    /\ rl_limit \in 1..MaxLimit
    /\ user_doc \in DocsAtDayStart(rl_limit)
    /\ utc_today = 1
    /\ rl_req = [r \in Callers |-> NoRequest]
    /\ rl_response = Sent(0, 0, FALSE, 0)
    /\ attempts = 0
    /\ admitted_today = 0
    /\ succeeded_today = 0
    /\ CleanIdle
    /\ ScoreIdle
    /\ SearchIdle
    /\ AIIdle
    /\ ExtractIdle
    /\ ReconcileIdle
    /\ ConfidenceIdle
    /\ PatternIdle
    /\ ParseIdle
    /\ ConcurrentIdle
    /\ PlaylistIdle
    /\ WorkflowIdle
    /\ LimiterIdle
    /\ OcrIdle

\* rate_limit_middleware, lines 130-155: check_rate_limit, and the 429
\* response when the request is not allowed; the request without a user id
\* is allowed with remaining = limit and checks nothing
Checked(r, has_user_id, result) ==
    /\ user_doc' = IF has_user_id THEN result.doc ELSE user_doc
    /\ IF has_user_id /\ ~ result.is_allowed
       THEN /\ rl_response' = Sent(429, result.remaining, TRUE, utc_today)
            /\ UNCHANGED rl_req
       ELSE /\ rl_req' = [rl_req EXCEPT ![r] =
                   [pc |-> "handler", user_id |-> has_user_id,
                    remaining |-> IF has_user_id THEN result.remaining ELSE rl_limit,
                    day |-> utc_today]]
            /\ UNCHANGED rl_response
    /\ admitted_today' = IF has_user_id /\ result.is_allowed
                         THEN admitted_today + 1 ELSE admitted_today

\* a request takes the first place that is not in the handler
RateLimitCheck(r, has_user_id) ==
    /\ rl_req[r].pc = "idle"
    /\ \A q \in 1..(r - 1) : rl_req[q].pc = "handler"
    /\ attempts < MaxAttempts
    /\ attempts' = attempts + 1
    /\ Checked(r, has_user_id, check_rate_limit(user_doc, fb_available, utc_today, rl_limit))
    /\ UNCHANGED <<fb_available, rl_limit, utc_today, succeeded_today>>
    /\ UNCHANGED <<cleanVars, scoreVars, searchVars, aiVars, extractVars, reconcileVars, confidenceVars, patternVars, parseVars, concurrentVars, playlistVars, workflowVars, limiterVars, ocrVars>>

\* lines 155-167: the handler's response, the headers, and the increment
\* when the response is a success and the request has a user id
HandlerReturns(r, status) ==
    /\ rl_req[r].pc = "handler"
    /\ user_doc' = IF status < 400 /\ rl_req[r].user_id
                   THEN increment_analysis_count(user_doc, fb_available)
                   ELSE user_doc
    /\ rl_response' = Sent(status,
                           IF status < 400 /\ rl_req[r].user_id
                           THEN Max(0, rl_req[r].remaining - 1)
                           ELSE rl_req[r].remaining,
                           rl_req[r].user_id, rl_req[r].day)
    /\ rl_req' = [rl_req EXCEPT ![r] = NoRequest]
    /\ succeeded_today' = IF status < 400 /\ rl_req[r].user_id /\ rl_req[r].day = utc_today
                          THEN succeeded_today + 1 ELSE succeeded_today
    /\ UNCHANGED <<fb_available, rl_limit, utc_today, attempts, admitted_today>>
    /\ UNCHANGED <<cleanVars, scoreVars, searchVars, aiVars, extractVars, reconcileVars, confidenceVars, patternVars, parseVars, concurrentVars, playlistVars, workflowVars, limiterVars, ocrVars>>

\* midnight UTC
DayPasses ==
    /\ utc_today < MaxDays
    /\ utc_today' = utc_today + 1
    /\ admitted_today' = 0
    /\ succeeded_today' = 0
    /\ UNCHANGED <<fb_available, rl_limit, user_doc, rl_req, rl_response, attempts>>
    /\ UNCHANGED <<cleanVars, scoreVars, searchVars, aiVars, extractVars, reconcileVars, confidenceVars, patternVars, parseVars, concurrentVars, playlistVars, workflowVars, limiterVars, ocrVars>>

NoneInHandler == \A q \in Callers : rl_req[q].pc # "handler"

DailyNext ==
    \/ \E r \in Callers, has_user_id \in BOOLEAN :
           NoneInHandler /\ RateLimitCheck(r, has_user_id)
    \/ \E r \in Callers, status \in HandlerStatus : HandlerReturns(r, status)
    \/ DayPasses

RaceNext ==
    \/ \E r \in Callers, has_user_id \in BOOLEAN : RateLimitCheck(r, has_user_id)
    \/ \E r \in Callers, status \in HandlerStatus : HandlerReturns(r, status)
    \/ DayPasses

SpecDaily == RateInit /\ [][DailyNext]_vars

SpecRace == RateInit /\ [][RaceNext]_vars

\* C23: of one user's successful requests made one after another within one
\* UTC day, at most rl_limit are allowed, a request is denied only when
\* rl_limit were allowed before it that day, and the denial has status 429
\* and remaining 0.
FirstLimitRequestsAllowedThenDenied ==
    fb_available =>
        /\ succeeded_today <= rl_limit
        /\ (rl_response.status = 429 /\ rl_response.day = utc_today) =>
               /\ succeeded_today >= rl_limit
               /\ rl_response.remaining = 0

\* the step is a check of a request made with a user id
ChecksNow ==
    /\ attempts' = attempts + 1
    /\ \A r \in Callers : rl_req'[r] # rl_req[r] => rl_req'[r].user_id

\* the stored reset date is of an earlier UTC day
ResetDateIsPast ==
    /\ fb_available
    /\ user_doc.exists
    /\ user_doc.has_reset_date
    /\ user_doc.rate_limit_reset_date < utc_today

AdmittedNeverExceedLimit ==
    fb_available => admitted_today <= rl_limit

(***************************************************************************)
(* SpecPlaylistRequest: one POST /create-playlist.  The body is validated  *)
(* against PlaylistCreationRequest, then the endpoint checks the Spotify   *)
(* configuration, the user id and the access token, and calls              *)
(* process_artists_to_playlist.  A field of the body is "missing" or has a *)
(* value; artists is missing or a number of names.                         *)
(***************************************************************************)
OptionalText == {"missing", "", "x"}

\* Field(..., min_length=1): artists and playlist_name are required and not
\* empty; tracks_per_artist is 3 when missing and between 1 and 10;
\* user_id and access_token are Optional with default None
ValidationError(request) ==
    \/ ~ request.artists_given
    \/ request.artists < 1
    \/ request.playlist_name \in {"missing", ""}
    \/ request.tracks_per_artist < 1
    \/ request.tracks_per_artist > 10

\* "not value" of an Optional[str]: None and the empty string
IsFalsy(value) == value \in {"missing", ""}

PlaylistInit ==
    /\ pl_request \in [artists_given : BOOLEAN, artists : 0..MaxArtists,
                       playlist_name : OptionalText,
                       tracks_per_artist : {0, 1, 3, 10, 11},
                       user_id : OptionalText, access_token : OptionalText]
    /\ pl_request.artists_given \/ pl_request.artists = 0
    /\ pl_configured \in BOOLEAN
    /\ pl_status = 0
    /\ pl_invoked = FALSE
    /\ pl_pc = "received"
    /\ CleanIdle
    /\ ScoreIdle
    /\ SearchIdle
    /\ AIIdle
    /\ ExtractIdle
    /\ ReconcileIdle
    /\ ConfidenceIdle
    /\ PatternIdle
    /\ ParseIdle
    /\ ConcurrentIdle
    /\ RateIdle
    /\ WorkflowIdle
    /\ LimiterIdle
    /\ OcrIdle

\* the body against the schema; validation_exception_handler answers 422
PlaylistValidate ==
    /\ pl_pc = "received"
    /\ IF ValidationError(pl_request)
       THEN pl_status' = 422 /\ pl_pc' = "done"
       ELSE pl_status' = pl_status /\ pl_pc' = "endpoint"
    /\ UNCHANGED <<pl_request, pl_configured, pl_invoked>>
    /\ UNCHANGED <<cleanVars, scoreVars, searchVars, aiVars, extractVars, reconcileVars, confidenceVars, patternVars, parseVars, concurrentVars, rateVars, workflowVars, limiterVars, ocrVars>>

\* create_playlist, lines 259-285: 503, 400, 401 or the call
PlaylistPreconditions ==
    /\ pl_pc = "endpoint"
    /\ IF ~ pl_configured
       THEN pl_status' = 503 /\ pl_pc' = "done" /\ UNCHANGED pl_invoked
       ELSE IF IsFalsy(pl_request.user_id)
       THEN pl_status' = 400 /\ pl_pc' = "done" /\ UNCHANGED pl_invoked
       ELSE IF IsFalsy(pl_request.access_token)
       THEN pl_status' = 401 /\ pl_pc' = "done" /\ UNCHANGED pl_invoked
       ELSE pl_invoked' = TRUE /\ pl_pc' = "processing" /\ UNCHANGED pl_status
    /\ UNCHANGED <<pl_request, pl_configured>>
    /\ UNCHANGED <<cleanVars, scoreVars, searchVars, aiVars, extractVars, reconcileVars, confidenceVars, patternVars, parseVars, concurrentVars, rateVars, workflowVars, limiterVars, ocrVars>>

\* lines 289-332: the result of process_artists_to_playlist: the response,
\* 400 when success is false, 500 when anything raises
PlaylistProcessed(result) ==
    /\ pl_pc = "processing"
    /\ pl_status' = CASE result = "success" -> 200
                      [] result = "failure" -> 400
                      [] OTHER -> 500
    /\ pl_pc' = "done"
    /\ UNCHANGED <<pl_request, pl_configured, pl_invoked>>
    /\ UNCHANGED <<cleanVars, scoreVars, searchVars, aiVars, extractVars, reconcileVars, confidenceVars, patternVars, parseVars, concurrentVars, rateVars, workflowVars, limiterVars, ocrVars>>

PlaylistNext ==
    \/ PlaylistValidate
    \/ PlaylistPreconditions
    \/ \E result \in {"success", "failure", "raises"} : PlaylistProcessed(result)

SpecPlaylistRequest == PlaylistInit /\ [][PlaylistNext]_vars

\* C25: the request without user_id, and the one with an empty artists
\* list, is answered 422; the schema-valid request on a service that is
\* not configured is answered 503 whatever its user_id and access_token;
\* and a request answered 422 or 503 did not call
\* process_artists_to_playlist.
RejectedBeforeProcessing ==
    pl_pc = "done" =>
        /\ (pl_request.user_id = "missing"
              \/ (pl_request.artists_given /\ pl_request.artists = 0)) =>
               pl_status = 422
        /\ (~ ValidationError(pl_request) /\ ~ pl_configured /\ pl_request.user_id # "missing") =>
               pl_status = 503
        /\ pl_status \in {422, 503} => ~ pl_invoked

(***************************************************************************)
(* SpecWorkflow: one call of process_artists_to_playlist.  The names, the  *)
(* catalog and the tracks are counted, not held: what the workflow does    *)
(* depends on whether an artist was found, on how many tracks came back,   *)
(* on whether create_playlist returned a playlist and on whether a batch   *)
(* of playlist_add_items raised.                                           *)
(***************************************************************************)
batch_size == 100

\* the top tracks one artist can bring (limit=tracks_per_artist)
TopTrackCounts == {0, 1, 60, 100}

LoopDone_AfterTheFirst(next, names) == next > 1

\* for artist_name in artist_names: the loop is over after the last name
LoopDone(next, names) == next > names

\* range(0, len(track_ids), batch_size)
Batches(tracks) == (tracks + batch_size - 1) \div batch_size

WorkflowInit ==
    /\ wf_artists \in 0..MaxArtists
    /\ wf_next = 1
    /\ wf_tracks = 0
    /\ wf_searched = 0
    /\ wf_failed = 0
    /\ wf_created = 0
    /\ wf_playlist = FALSE
    /\ wf_add_called = FALSE
    /\ wf_added = 0
    /\ wf_result = "none"
    /\ wf_pc = "artists"
    /\ CleanIdle
    /\ ScoreIdle
    /\ SearchIdle
    /\ AIIdle
    /\ ExtractIdle
    /\ ReconcileIdle
    /\ ConfidenceIdle
    /\ PatternIdle
    /\ ParseIdle
    /\ ConcurrentIdle
    /\ RateIdle
    /\ PlaylistIdle
    /\ LimiterIdle
    /\ OcrIdle

\* lines 404-405 and 424-426: search_artist of the next name; the artist
\* not found is a failed artist
WorkflowSearch(is_found) ==
    /\ wf_pc = "artists"
    /\ ~ LoopDone(wf_next, wf_artists)
    /\ wf_searched' = wf_searched + 1
    /\ IF is_found
       THEN wf_pc' = "tracks" /\ UNCHANGED <<wf_next, wf_failed>>
       ELSE wf_next' = wf_next + 1 /\ wf_failed' = wf_failed + 1 /\ UNCHANGED wf_pc
    /\ UNCHANGED <<wf_artists, wf_tracks, wf_created, wf_playlist, wf_add_called, wf_added, wf_result>>
    /\ UNCHANGED <<cleanVars, scoreVars, searchVars, aiVars, extractVars, reconcileVars, confidenceVars, patternVars, parseVars, concurrentVars, rateVars, playlistVars, limiterVars, ocrVars>>

\* lines 407-423: get_artist_top_tracks of the artist found; the tracks
\* extend all_tracks, the artist without tracks is a failed artist
WorkflowTopTracks(tracks) ==
    /\ wf_pc = "tracks"
    /\ wf_tracks' = wf_tracks + tracks
    /\ wf_failed' = IF tracks = 0 THEN wf_failed + 1 ELSE wf_failed
    /\ wf_next' = wf_next + 1
    /\ wf_pc' = "artists"
    /\ UNCHANGED <<wf_artists, wf_searched, wf_created, wf_playlist, wf_add_called, wf_added, wf_result>>
    /\ UNCHANGED <<cleanVars, scoreVars, searchVars, aiVars, extractVars, reconcileVars, confidenceVars, patternVars, parseVars, concurrentVars, rateVars, playlistVars, limiterVars, ocrVars>>

\* lines 428-454: nothing collected ends the call; otherwise create_playlist,
\* which returns the playlist or None
WorkflowCreate(is_created) ==
    /\ wf_pc = "artists"
    /\ LoopDone(wf_next, wf_artists)
    /\ IF wf_tracks = 0
       THEN /\ wf_result' = "failure" /\ wf_pc' = "done"
            /\ UNCHANGED <<wf_created, wf_playlist>>
       ELSE /\ wf_created' = wf_created + 1
            /\ wf_playlist' = is_created
            /\ IF is_created
               THEN wf_pc' = "add" /\ UNCHANGED wf_result
               ELSE wf_result' = "failure" /\ wf_pc' = "done"
    /\ UNCHANGED <<wf_artists, wf_next, wf_tracks, wf_searched, wf_failed, wf_add_called, wf_added>>
    /\ UNCHANGED <<cleanVars, scoreVars, searchVars, aiVars, extractVars, reconcileVars, confidenceVars, patternVars, parseVars, concurrentVars, rateVars, playlistVars, limiterVars, ocrVars>>

\* lines 456-492 and add_tracks_to_playlist: one batch of
\* playlist_add_items; a batch that raises makes the call return False,
\* the last batch makes it return True
WorkflowAddBatch(is_added) ==
    /\ wf_pc = "add"
    /\ wf_add_called' = TRUE
    /\ IF ~ is_added
       THEN wf_result' = "failure" /\ wf_pc' = "done" /\ UNCHANGED wf_added
       ELSE /\ wf_added' = wf_added + 1
            /\ IF wf_added + 1 = Batches(wf_tracks)
               THEN wf_result' = "success" /\ wf_pc' = "done"
               ELSE UNCHANGED <<wf_result, wf_pc>>
    /\ UNCHANGED <<wf_artists, wf_next, wf_tracks, wf_searched, wf_failed, wf_created, wf_playlist>>
    /\ UNCHANGED <<cleanVars, scoreVars, searchVars, aiVars, extractVars, reconcileVars, confidenceVars, patternVars, parseVars, concurrentVars, rateVars, playlistVars, limiterVars, ocrVars>>

\* lines 494-502: anything raised in the body gives success False
WorkflowRaises ==
    /\ wf_pc \in {"artists", "tracks", "add"}
    /\ wf_result' = "failure"
    /\ wf_pc' = "done"
    /\ UNCHANGED <<wf_artists, wf_next, wf_tracks, wf_searched, wf_failed, wf_created, wf_playlist, wf_add_called, wf_added>>
    /\ UNCHANGED <<cleanVars, scoreVars, searchVars, aiVars, extractVars, reconcileVars, confidenceVars, patternVars, parseVars, concurrentVars, rateVars, playlistVars, limiterVars, ocrVars>>

WorkflowNext ==
    \/ \E is_found \in BOOLEAN : WorkflowSearch(is_found)
    \/ \E tracks \in TopTrackCounts : WorkflowTopTracks(tracks)
    \/ \E is_created \in BOOLEAN : WorkflowCreate(is_created)
    \/ \E is_added \in BOOLEAN : WorkflowAddBatch(is_added)
    \/ WorkflowRaises

SpecWorkflow == WorkflowInit /\ [][WorkflowNext]_vars

\* C27: create_playlist is called at most once, only when every artist was
\* searched and a track was collected; add_tracks_to_playlist is called
\* only with a playlist returned by create_playlist; and the result is a
\* success only when the playlist was created and every batch was added.
PlaylistStepsInOrder ==
    /\ wf_created <= 1
    /\ wf_created = 1 => (wf_searched = wf_artists /\ wf_tracks > 0)
    /\ wf_add_called => (wf_created = 1 /\ wf_playlist)
    /\ wf_result = "success" =>
           /\ wf_created = 1 /\ wf_playlist
           /\ wf_added = Batches(wf_tracks)

\* C27 witness: a success after all artists were searched, with the tracks
\* added in two batches.
SucceededWithTwoBatches ==
    /\ wf_result = "success"
    /\ wf_failed = 0
    /\ wf_searched = wf_artists
    /\ wf_artists >= 2
    /\ wf_added = 2

(***************************************************************************)
(* SpecLimiter: the in-memory limiter of app/utils/middleware.py.          *)
(* is_allowed has no await, so the calls of rate_limit_middleware run it   *)
(* one at a time.  Time is time.time() in whole seconds and does not go    *)
(* back between calls; a call comes 0, 1, 59 or 60 seconds after the one   *)
(* before it.                                                              *)
(***************************************************************************)
window_seconds == 60

ClientIps == {"10.0.0.1", "unknown"}

\* the seconds between one call and the next
ClockSteps == {0, 1, window_seconds - 1, window_seconds}

StillFresh_UpToSixty(current_time, req_time) == current_time - req_time <= window_seconds

\* the filter of the list: current_time - req_time < 60
StillFresh(current_time, req_time) == current_time - req_time < window_seconds

\* the stored timestamps of the IP that pass the filter
Filtered(stored, current_time) ==
    SelectSeq(stored, LAMBDA req_time : StillFresh(current_time, req_time))

LimiterInit ==
    /\ requests_per_minute \in 1..MaxPerMinute
    /\ lim_requests = [ip \in {} |-> <<>>]
    /\ lim_clock = 0
    /\ lim_admitted = [ip \in ClientIps |-> <<>>]
    /\ lim_last = [ip |-> "none", time |-> 0, allowed |-> FALSE]
    /\ lim_calls = 0
    /\ CleanIdle
    /\ ScoreIdle
    /\ SearchIdle
    /\ AIIdle
    /\ ExtractIdle
    /\ ReconcileIdle
    /\ ConfidenceIdle
    /\ PatternIdle
    /\ ParseIdle
    /\ ConcurrentIdle
    /\ RateIdle
    /\ PlaylistIdle
    /\ WorkflowIdle
    /\ OcrIdle

\* the list after the call: the kept timestamps, and current_time when
\* there is room
Recorded(kept, current_time, limit) ==
    IF Len(kept) < limit THEN Append(kept, current_time) ELSE kept

\* the list of the IP, created empty when the IP is new, after the filter
Kept(client_ip, current_time) ==
    IF client_ip \in DOMAIN lim_requests
    THEN Filtered(lim_requests[client_ip], current_time)
    ELSE <<>>

\* is_allowed(client_ip) called at current_time: filter or create the list,
\* deny at requests_per_minute entries, else append current_time
is_allowed(client_ip, current_time) ==
    /\ lim_calls < MaxCalls
    /\ lim_calls' = lim_calls + 1
    /\ lim_clock' = current_time
    /\ lim_requests' =
          [ip \in DOMAIN lim_requests \cup {client_ip} |->
              IF ip # client_ip THEN lim_requests[ip]
              ELSE Recorded(Kept(client_ip, current_time), current_time, requests_per_minute)]
    /\ lim_admitted' =
          IF Len(Kept(client_ip, current_time)) < requests_per_minute
          THEN [lim_admitted EXCEPT ![client_ip] = Append(@, current_time)]
          ELSE lim_admitted
    /\ lim_last' = [ip |-> client_ip, time |-> current_time,
                    allowed |-> Len(Kept(client_ip, current_time)) < requests_per_minute]
    /\ UNCHANGED requests_per_minute
    /\ UNCHANGED <<cleanVars, scoreVars, searchVars, aiVars, extractVars, reconcileVars, confidenceVars, patternVars, parseVars, concurrentVars, rateVars, playlistVars, workflowVars, ocrVars>>

LimiterNext ==
    \E client_ip \in ClientIps, seconds \in ClockSteps :
        is_allowed(client_ip, lim_clock + seconds)

SpecLimiter == LimiterInit /\ [][LimiterNext]_vars

\* the timestamps admitted for the IP before the last call
AdmittedBefore(ip) ==
    IF lim_last.ip = ip /\ lim_last.allowed
    THEN SubSeq(lim_admitted[ip], 1, Len(lim_admitted[ip]) - 1)
    ELSE lim_admitted[ip]

\* how many of the timestamps lie in [from, from + 60)
InWindow(stamps, from) ==
    Cardinality({i \in 1..Len(stamps) : stamps[i] >= from /\ stamps[i] < from + window_seconds})

\* C28: per IP no half-open interval of 60 seconds holds more than
\* requests_per_minute admitted requests; the last call was allowed exactly
\* when fewer than requests_per_minute of the requests admitted before it
\* for that IP were less than 60 seconds old; every stored timestamp is an
\* admitted one, the list of the IP called last holds exactly its admitted
\* timestamps less than 60 seconds old; and no stored list is longer than
\* requests_per_minute.
AtMostPerMinuteInAnyWindow ==
    /\ \A ip \in ClientIps : \A from \in SetOf(lim_admitted[ip]) :
           InWindow(lim_admitted[ip], from) <= requests_per_minute
    /\ lim_last.ip \in ClientIps =>
           (lim_last.allowed <=>
               Cardinality({i \in 1..Len(AdmittedBefore(lim_last.ip)) :
                               lim_last.time - AdmittedBefore(lim_last.ip)[i] < window_seconds})
                   < requests_per_minute)
    /\ \A ip \in DOMAIN lim_requests :
           /\ Len(lim_requests[ip]) <= requests_per_minute
           /\ \A i \in 1..Len(lim_requests[ip]) :
                  \E j \in 1..Len(lim_admitted[ip]) : lim_admitted[ip][j] = lim_requests[ip][i]
           /\ lim_last.ip = ip =>
                  lim_requests[ip] =
                      SelectSeq(lim_admitted[ip],
                                LAMBDA stamp : lim_last.time - stamp < window_seconds)

\* C28 witness: a request of an IP was denied at the limit, and 60 seconds
\* after the admitted ones the next request of that IP was allowed.
DeniedAtTheLimitThenAllowedAgain ==
    /\ lim_last.ip \in ClientIps
    /\ lim_last.allowed
    /\ Len(lim_admitted[lim_last.ip]) > requests_per_minute
    /\ Len(lim_requests[lim_last.ip]) = 1
    /\ lim_calls > Len(lim_admitted["10.0.0.1"]) + Len(lim_admitted["unknown"])

(***************************************************************************)
(* SpecOcr: MaxOcrRequests requests to POST /ocr on the module-level       *)
(* ocr_service.  extract_text of endpoints.py is a coroutine; a coroutine  *)
(* keeps the event loop until it awaits or returns, and another request    *)
(* runs only then.                                                         *)
(***************************************************************************)
Engines == {"tesseract", "google_vision"}

OcrRequestIds == 1..MaxOcrRequests

IsAwaitPoint_AtTheOcrCall(position) == position = "swapped"

\* the positions of extract_text where the coroutine awaits: the handler
\* has no await, ocr_service.extract_text is an ordinary call
IsAwaitPoint(position) == FALSE

\* the request running after request r reached the position
RunningAfter(r, position) == IF IsAwaitPoint(position) THEN 0 ELSE r

\* request r can take a step
CanRun(r) == ocr_running \in {0, r}

OcrInit ==
    /\ startup_engine \in Engines
    /\ ocr_engine = startup_engine
    /\ ocr_req \in [OcrRequestIds ->
                      [pc : {"new"}, engine : Engines, original_engine : {"none"},
                       used_engine : {"none"}, status : {0}]]
    /\ ocr_running = 0
    /\ CleanIdle
    /\ ScoreIdle
    /\ SearchIdle
    /\ AIIdle
    /\ ExtractIdle
    /\ ReconcileIdle
    /\ ConfidenceIdle
    /\ PatternIdle
    /\ ParseIdle
    /\ ConcurrentIdle
    /\ RateIdle
    /\ PlaylistIdle
    /\ WorkflowIdle
    /\ LimiterIdle

\* lines 106-127: the file is looked up and validated (404, 400), then
\* original_engine is saved and the engine of the request is set
OcrBegins(r, file) ==
    /\ ocr_req[r].pc = "new"
    /\ CanRun(r)
    /\ IF file # "valid"
       THEN /\ ocr_req' = [ocr_req EXCEPT ![r].pc = "done",
                             ![r].status = IF file = "missing" THEN 404 ELSE 400]
            /\ ocr_running' = 0
            /\ UNCHANGED ocr_engine
       ELSE /\ ocr_req' = [ocr_req EXCEPT ![r].pc = "swapped",
                             ![r].original_engine = ocr_engine]
            /\ ocr_engine' = ocr_req[r].engine
            /\ ocr_running' = RunningAfter(r, "swapped")
    /\ UNCHANGED startup_engine
    /\ UNCHANGED <<cleanVars, scoreVars, searchVars, aiVars, extractVars, reconcileVars, confidenceVars, patternVars, parseVars, concurrentVars, rateVars, playlistVars, workflowVars, limiterVars>>

\* line 130: ocr_service.extract_text(file_path) runs the engine that
\* ocr_engine names, and returns or raises
OcrExtracts(r, is_raised) ==
    /\ ocr_req[r].pc = "swapped"
    /\ CanRun(r)
    /\ ocr_req' = [ocr_req EXCEPT ![r].pc = IF is_raised THEN "raised" ELSE "returned",
                     ![r].used_engine = ocr_engine]
    /\ ocr_running' = r
    /\ UNCHANGED <<ocr_engine, startup_engine>>
    /\ UNCHANGED <<cleanVars, scoreVars, searchVars, aiVars, extractVars, reconcileVars, confidenceVars, patternVars, parseVars, concurrentVars, rateVars, playlistVars, workflowVars, limiterVars>>

\* lines 131-156: finally restores original_engine; the response, or 500
OcrRestores(r) ==
    /\ ocr_req[r].pc \in {"raised", "returned"}
    /\ CanRun(r)
    /\ ocr_engine' = ocr_req[r].original_engine
    /\ ocr_req' = [ocr_req EXCEPT ![r].pc = "done",
                     ![r].status = IF ocr_req[r].pc = "raised" THEN 500 ELSE 200]
    /\ ocr_running' = 0
    /\ UNCHANGED startup_engine
    /\ UNCHANGED <<cleanVars, scoreVars, searchVars, aiVars, extractVars, reconcileVars, confidenceVars, patternVars, parseVars, concurrentVars, rateVars, playlistVars, workflowVars, limiterVars>>

OcrNext ==
    \E r \in OcrRequestIds :
        \/ \E file \in {"missing", "invalid", "valid"} : OcrBegins(r, file)
        \/ \E is_raised \in BOOLEAN : OcrExtracts(r, is_raised)
        \/ OcrRestores(r)

SpecOcr == OcrInit /\ [][OcrNext]_vars

\* C29: ocr_engine is the engine of a request only while that request is
\* at its OCR call, the call runs the engine of the request, and whenever
\* no request is at its OCR call ocr_engine is the engine set at start-up,
\* whether the calls returned or raised.
EngineSwapIsTransient ==
    /\ (\A r \in OcrRequestIds : ocr_req[r].pc \in {"new", "done"}) =>
           ocr_engine = startup_engine
    /\ \A r \in OcrRequestIds :
           /\ ocr_req[r].pc \in {"swapped", "raised", "returned"} =>
                  /\ ocr_engine = ocr_req[r].engine
                  /\ ocr_req[r].original_engine = startup_engine
           /\ ocr_req[r].used_engine \in {"none", ocr_req[r].engine}

\* C29 witness: two requests for the engine that is not the start-up one
\* are done, one answered 200 and one 500 because its OCR raised.
OverridesReturnedAndRaised ==
    /\ ocr_req[1].pc = "done" /\ ocr_req[1].status = 500
    /\ ocr_req[2].pc = "done" /\ ocr_req[2].status = 200
    /\ ocr_req[1].engine # startup_engine
    /\ ocr_req[2].engine # startup_engine
    /\ ocr_engine = startup_engine

====
